---------------------------- MODULE Spec2Model ----------------------------
(***************************************************************************)
(* A state-machine model of the avionics core of flightgpt (src/ifrsim.py, *)
(* src/a320_systems.py, src/mcdu.py).                                      *)
(*                                                                         *)
(* Every subsystem is modelled by pure operators that compute the          *)
(* post-state of one method call from its pre-state, and by one action per *)
(* public operation that assigns that post-state.  The subsystems are      *)
(* explored in separate specifications (SpecStarter, SpecSim, ...) over    *)
(* one set of variables; a specification leaves the variables of the other *)
(* subsystems at their initial values.                                     *)
(*                                                                         *)
(* Numbers.  The program computes with floats.  The model uses integers:   *)
(* fractions of 1.0 are percentages (0..100) or Quant-ths, times are       *)
(* seconds, fuel is pounds, positions are tenths of a nautical mile.       *)
(* Inputs are drawn from small grids so that every comparison in the code  *)
(* is decided on both sides.                                               *)
(***************************************************************************)
EXTENDS Integers, Sequences, FiniteSets, TLC

VARIABLES
    op,              \* label of the operation that produced the current state
    \* --- shared environment
    fdm_dt,          \* fdm.get_delta_t(): the fixed time step, seconds
    fdm_n1,          \* FDM property propulsion/engine*/n1, averaged, percent
    apu_running,     \* ElectricSystem.apu_running
    \* --- EngineStartSystem, Engine.failed, FDM set-running properties
    starter_state,   \* EngineStartSystem.state
    starter_timer,   \* EngineStartSystem.timer, seconds
    failed,          \* Engine.failed, per engine index
    set_running,     \* FDM property propulsion/engine[i]/set-running
    bleed_pressure,  \* BleedAirSystem.pressure, percent
    restart_clock,   \* history: seconds of bleed > 0.3 seen by step() since
                     \* request_start() was issued for a failed engine; -1
                     \* when no such request is pending
    \* --- SystemManager with its HydraulicSystem
    sys,             \* SystemManager fields, a record (see SysInit)
    \* --- AutobrakeSystem and the brake command it writes
    ab_level,        \* AutobrakeSystem.level
    ab_active,       \* AutobrakeSystem.active
    brake_command,   \* BrakeSystem.command, percent
    ab_args,         \* arguments of the latest AutobrakeSystem.update
    \* --- FuelSystem and the FDM tank contents
    tank_left,       \* FDM property propulsion/tank/contents-lbs
    tank_right,      \* FDM property propulsion/tank[1]/contents-lbs
    crossfeed_on,    \* FuelSystem.crossfeed_on
    fuel_ret,        \* what the latest FuelSystem.update returned and saw
    \* --- NavigationSystem and the FDM position
    nav_waypoints,   \* NavigationSystem.waypoints, a sequence of latitudes
    nav_index,       \* NavigationSystem.index
    ac_lat,          \* FDM property position/lat-gc-deg, in tenths of a nm
    \* --- Engine objects (Engine.failed is the variable failed above)
    eng,             \* per engine index: the Engine fields and its OilSystem
    throttle_cmd,    \* FDM property fcs/throttle-cmd-norm[i], percent
    eng_draws,       \* engines whose latest Engine.update drew a random failure
    failed_time,     \* history, per engine: seconds of the Engine.update calls
                     \* that ran since the engine was last seen not failed
    fire_age,        \* history, per engine: seconds of Engine.update calls
                     \* its present fire has lasted (0 without a fire)
    \* --- FireSuppressionSystem
    fs_bottles,      \* FireSuppressionSystem.bottles
    fs_timer,        \* FireSuppressionSystem.timer, seconds
    fs_active_engine,\* FireSuppressionSystem.active_engine: {} is None, {i}
    fs_ret,          \* what the latest FireSuppressionSystem.update did
    fire_queue,      \* history: the burning engines, earliest fire first
    \* --- BrakeSystem (BrakeSystem.command is brake_command above)
    brake_heat,      \* BrakeSystem.heat, percent
    parking_brake,   \* BrakeSystem.parking_brake
    brake_ret,       \* arguments and effect of the latest BrakeSystem.update
    \* --- MasterCautionSystem and the telemetry of A320IFRSim.step
    warnings,        \* MasterCautionSystem.warnings: name -> BOOLEAN
    step_ret,        \* warning and brake entries of the dict step() returned
    \* --- Autopilot
    ap_heading,      \* Autopilot.heading, degrees
    ap_altitude,     \* Autopilot.altitude, feet
    vertical_mode,   \* Autopilot.vertical_mode
    ap_args,         \* what the latest Autopilot.update read
    \* --- ElectricSystem with its RamAirTurbine (apu_running is above)
    charge,          \* ElectricSystem.charge, percent
    apu_timer,       \* ElectricSystem.apu_timer, seconds
    generator_failed,\* ElectricSystem.generator_failed
    rat_deployed,    \* RamAirTurbine.deployed
    elec_ret,        \* what the latest ElectricSystem.update saw and did
    \* --- Autopilot: engagement, control loops and the commands it writes
    engaged,         \* Autopilot.engaged
    ap_vs_target,    \* Autopilot.vs_target_fpm, feet per minute
    pid,             \* the Autopilot's PIDControllers alt, vs, hdg, yaw:
                     \* name -> [integral, prev_error]
    fcs_cmd,         \* FDM properties fcs/elevator-, aileron-, rudder-cmd-norm,
                     \* millionths
    pid_at_disengage,\* history: pid as it was when the autopilot was last
                     \* disengaged
    ctl_updates,     \* history: number of Autopilot.update calls so far
    \* --- Autopilot system automation and the switches it operates
    auto_manage_systems, \* Autopilot.auto_manage_systems
    anti_ice_active, \* AntiIceSystem.active
    wing_ice_active, \* WingIceSystem.active
    pitot_heat,      \* PitotSystem.heat_on
    \* --- calls that can reject their argument
    call_ret,        \* the latest such call: its name, argument and the
                     \* exception it raised ("none": it returned normally)
    \* --- A320IFRSim.step as a whole, and the Autothrottle
    time_s,          \* A320IFRSim.time_s, seconds
    step_log,        \* history: the update calls the latest step() made, in
                     \* the order it made them
    tick_ret,        \* what the latest step() found, read and returned
    at_engaged,      \* Autothrottle.engaged
    at_target,       \* Autothrottle.target_speed, knots
    at_ret,          \* what the latest Autothrottle.update was given, read
                     \* and returned
    \* --- AntiIceSystem, WingIceSystem, PitotSystem, OxygenSystem
    ice,             \* AntiIceSystem.ice, WingIceSystem.ice, PitotSystem.clog:
                     \* a record engine, wing, pitot of IceQuant-ths
    ice_ret,         \* what the latest update of the accumulators saw
    oxygen_level     \* OxygenSystem.level, percent

envVars == <<fdm_dt, fdm_n1, apu_running>>
starterVars == <<starter_state, starter_timer, failed, set_running,
                 bleed_pressure, restart_clock>>
sysVars == <<sys>>
abVars == <<ab_level, ab_active, brake_command, ab_args>>
fuelVars == <<tank_left, tank_right, crossfeed_on, fuel_ret>>
navVars == <<nav_waypoints, nav_index, ac_lat>>
engVars == <<eng, throttle_cmd, eng_draws, fire_age, failed_time>>
fireVars == <<fs_bottles, fs_timer, fs_active_engine, fs_ret, fire_queue>>
brakeVars == <<brake_heat, parking_brake, brake_ret>>
cautionVars == <<warnings, step_ret>>
apVars == <<ap_heading, ap_altitude, vertical_mode, ap_args>>
callVars == <<call_ret>>
elecVars == <<charge, apu_timer, generator_failed, rat_deployed, elec_ret>>
ctlVars == <<engaged, ap_vs_target, pid, fcs_cmd, pid_at_disengage,
             ctl_updates>>
autoVars == <<auto_manage_systems, anti_ice_active, wing_ice_active,
              pitot_heat>>
iceVars == <<ice, ice_ret>>
tickVars == <<time_s, step_log, tick_ret, at_engaged, at_target, at_ret,
              iceVars, oxygen_level>>
deckVars == <<elecVars, ctlVars, autoVars, tickVars>>

vars == <<op, envVars, starterVars, sysVars, abVars, fuelVars, navVars,
          engVars, fireVars, brakeVars, cautionVars, apVars, deckVars,
          callVars>>

\* What the operations of one subsystem leave alone.
cockpitVars == <<brakeVars, cautionVars, apVars, deckVars>>
notStarter == <<sysVars, abVars, fuelVars, navVars, engVars, fireVars,
                cockpitVars, callVars>>
notSys == <<envVars, starterVars, abVars, fuelVars, navVars, engVars,
            fireVars, cockpitVars, callVars>>
\* ... by the autobrake's operations but for call_ret, and with it
notAutobrakeCall == <<envVars, starterVars, sysVars, fuelVars, navVars,
                      engVars, fireVars, cockpitVars>>
notAutobrake == <<notAutobrakeCall, callVars>>
notFuel == <<starterVars, sysVars, abVars, navVars, engVars, fireVars,
             cockpitVars, callVars>>
notNavCall == <<envVars, starterVars, sysVars, abVars, fuelVars, engVars,
                fireVars, cockpitVars>>
notNav == <<notNavCall, callVars>>
\* The engines' operations write failed and set_running, two of starterVars.
notEngine == <<starter_state, starter_timer, bleed_pressure, restart_clock,
               envVars, sysVars, abVars, fuelVars, navVars, cockpitVars,
               callVars>>
notBrake == <<envVars, starterVars, sysVars, ab_level, ab_active, ab_args,
              fuelVars, navVars, engVars, fireVars, cautionVars, apVars,
              deckVars, callVars>>
notAutopilot == <<envVars, starterVars, sysVars, abVars, fuelVars, engVars,
                  fireVars, brakeVars, cautionVars, deckVars, callVars>>

(***************************************************************************)
(* Helpers                                                                 *)
(***************************************************************************)
Min(a, b) == IF a < b THEN a ELSE b
Max(a, b) == IF a > b THEN a ELSE b
Abs(a) == IF a < 0 THEN -a ELSE a
\* max(lo, min(x, hi)), the clamping idiom used throughout ifrsim.py
Clamp(x, lo, hi) == Max(lo, Min(x, hi))

(***************************************************************************)
(* Engines, bleed air and the engine start sequence                        *)
(***************************************************************************)
NumEngines == 2
Engines == 0 .. (NumEngines - 1)

StartTime == 8              \* EngineStartSystem start_time, seconds
StartBleedThreshold == 30   \* bleed.pressure > 0.3
BleedN1Threshold == 20      \* n1 > 0.2
BleedApuGain == 50          \* apu_gain = 0.5
MaxDt == 3                  \* largest time step tried, seconds
StarterDts == 2 .. MaxDt
N1Values == {0, 60}         \* averaged n1 values the FDM may report, percent

\* BleedAirSystem.update: engine contribution above the n1 threshold
\* (engine_gain = 1.0) plus the APU contribution, clamped to [0, 1].
BleedAirSystem_pressure(n1, apu) ==
    Clamp((IF n1 > BleedN1Threshold THEN n1 ELSE 0)
          + (IF apu THEN BleedApuGain ELSE 0), 0, 100)

\* The starter together with what it writes: s = [state, timer, failed, run].
StarterRec ==
    [state |-> starter_state, timer |-> starter_timer,
     failed |-> failed, run |-> set_running]

\* Mutant of request_start_f: the guard on state "stopped" is dropped.
request_start_unguarded(s) ==
    [s EXCEPT !.state = "starting", !.timer = 0,
              !.run = [i \in Engines |-> 0]]

\* EngineStartSystem.request_start
request_start_f(s) ==
    IF s.state = "stopped"
    THEN [s EXCEPT !.state = "starting", !.timer = 0,
                   !.run = [i \in Engines |-> 0]]
    ELSE s

\* Mutant of starter_update_f: the timer runs whatever the bleed pressure.
starter_update_ungated(s, bleed, dt) ==
    IF s.state = "starting"
    THEN LET t == s.timer + dt
         IN  IF t >= StartTime
             THEN [state |-> "running", timer |-> t,
                   failed |-> [i \in Engines |-> FALSE],
                   run |-> [i \in Engines |-> 1]]
             ELSE [s EXCEPT !.timer = t]
    ELSE s

\* EngineStartSystem.update(dt); bleed is self.bleed.pressure
starter_update_f(s, bleed, dt) ==
    IF s.state = "starting"
    THEN LET t == IF bleed > StartBleedThreshold THEN s.timer + dt ELSE s.timer
         IN  IF t >= StartTime
             THEN [state |-> "running", timer |-> t,
                   failed |-> [i \in Engines |-> FALSE],     \* eng.restart()
                   run |-> [i \in Engines |-> 1]]
             ELSE [s EXCEPT !.timer = t]
    ELSE s

\* Engine.fail on every engine of the set F
engines_fail_f(s, F) ==
    [s EXCEPT !.failed = [i \in Engines |-> IF i \in F THEN TRUE ELSE @[i]],
              !.run = [i \in Engines |-> IF i \in F THEN 0 ELSE @[i]]]

SetStarter(s) ==
    /\ starter_state' = s.state
    /\ starter_timer' = s.timer
    /\ failed' = s.failed
    /\ set_running' = s.run

AnyFailed(f) == \E i \in Engines : f[i]

\* --- operations -----------------------------------------------------------

\* EnginePanel.start -> EngineStartSystem.request_start
EngineStartSystem_request_start ==
    /\ op' = "request_start"
    /\ SetStarter(request_start_f(StarterRec))
    /\ restart_clock' = IF AnyFailed(failed) THEN 0 ELSE restart_clock
    /\ UNCHANGED <<bleed_pressure, envVars, notStarter>>

EngineStartSystem_update(dt) ==
    /\ op' = "starter_update"
    /\ SetStarter(starter_update_f(StarterRec, bleed_pressure, dt))
    /\ UNCHANGED <<bleed_pressure, restart_clock, envVars, notStarter>>

\* Engine.fail (fault injection, EngineSystem.fail(index))
Engine_fail(i) ==
    /\ op' = "engine_fail"
    /\ SetStarter(engines_fail_f(StarterRec, {i}))
    /\ restart_clock' = -1
    /\ UNCHANGED <<bleed_pressure, envVars, notStarter>>

\* BleedAirSystem.update, reading the n1 the FDM reports at that moment
BleedAirSystem_update(n1) ==
    /\ op' = "bleed_update"
    /\ fdm_n1' = n1
    /\ bleed_pressure' = BleedAirSystem_pressure(n1, apu_running)
    /\ UNCHANGED <<starter_state, starter_timer, failed, set_running,
                   restart_clock, apu_running, fdm_dt, notStarter>>

\* ElectricSystem.start_apu / stop_apu as far as apu_running goes
ElectricSystem_set_apu(on) ==
    /\ op' = "set_apu"
    /\ apu_running' = on
    /\ UNCHANGED <<starterVars, fdm_n1, fdm_dt, notStarter>>


\* --- the simulator: A320IFRSim.step, as far as it touches the starter, the
\* engines' failed flags, the FDM set-running properties and bleed air ------

\* step().  In source order: starter.update(dt); the re-request when an
\* engine is failed and the starter is running; autopilot.update(), in which
\* Engine.update / AntiIceSystem.update call Engine.fail() on the engines F
\* (random failure, EGT, oil and fire timers); electrics.update(), which may
\* start or stop the APU; pressurization.update() -> bleed.update(); and
\* fdm.run(), after which the FDM reports the n1 value n1next.  F, the APU
\* decision and n1next depend on state outside this slice (random draws,
\* battery charge, flight dynamics) and are drawn from their ranges.
A320IFRSim_step(F, apu, n1next) ==
    LET s1 == starter_update_f(StarterRec, bleed_pressure, fdm_dt)
        rerequest == AnyFailed(s1.failed) /\ s1.state = "running"
        s2 == IF rerequest THEN request_start_f(s1) ELSE s1
        s3 == engines_fail_f(s2, F)
        c1 == IF restart_clock >= 0 /\ bleed_pressure > StartBleedThreshold
              THEN Min(restart_clock + fdm_dt, StartTime)
              ELSE restart_clock
        c2 == IF rerequest /\ c1 = -1 THEN 0 ELSE c1
    IN  /\ op' = "step"
        /\ SetStarter(s3)
        /\ restart_clock' = IF F # {} THEN -1 ELSE c2
        /\ apu_running' = apu
        /\ bleed_pressure' = BleedAirSystem_pressure(fdm_n1, apu)
        /\ fdm_n1' = n1next
        /\ UNCHANGED <<fdm_dt, notStarter>>


\* construction values, for the specifications of the other subsystems
EnvIdle ==
    /\ fdm_dt = MaxDt
    /\ fdm_n1 = 0
    /\ apu_running = FALSE

StarterIdle ==
    /\ starter_state = "stopped"
    /\ starter_timer = 0
    /\ failed = [i \in Engines |-> FALSE]
    /\ set_running = [i \in Engines |-> 0]
    /\ bleed_pressure = 0
    /\ restart_clock = -1

(***************************************************************************)
(* SystemManager and HydraulicSystem                                       *)
(*                                                                         *)
(* Positions, targets and hydraulic pressure are fractions of 1.0 held in  *)
(* Quant-ths; a float result is rounded to the nearest Quant-th.           *)
(***************************************************************************)
Quant == 4                  \* resolution: 1.0 is Quant units
FlapOverspeedKt == 220      \* flap_overspeed_kt
GearOverspeedKt == 250      \* gear_overspeed_kt
ActuatorRatePct == 50       \* flap_rate = gear_rate = speedbrake_rate = 0.5
HydPumpRatePct == 30        \* HydraulicSystem pump_rate = 0.3
HydLeakRatePct == 1         \* HydraulicSystem leak_rate = 0.01
HydUsageFactorPct == 50     \* HydraulicSystem usage_factor = 0.5

SysDts == {1, 2}                                 \* dt values, seconds
SysSpeeds == {200, 230, 260}                     \* speed_kt values
TargetInputs == {-1, Quant + 1}                \* arguments of set_targets
\* An optional argument is the empty set (Python's None) or a singleton.
NoArg == {}
OptionalTargets == {NoArg} \cup {{v} : v \in TargetInputs}
ArgValue(arg) == CHOOSE v \in arg : TRUE

\* hundredths of a unit to the nearest unit
Round100(x) == (x + 50) \div 100

\* SystemManager.__init__; targets_seen is history: the gear, flap and
\* speedbrake targets as the latest Autopilot.update found them; speed_seen is history: the speed_kt the latest
\* update was given
SysConstructed ==
    [flap |-> 0, gear |-> 0, speedbrake |-> 0,
     target_flap |-> 0, target_gear |-> 0, target_speedbrake |-> 0,
     pressure |-> Quant, pump_on |-> TRUE,
     flap_operable |-> TRUE, gear_operable |-> TRUE,
     speed_seen |-> 0, targets_seen |-> <<0, 0, 0>>]

\* SystemManager.set_targets
set_targets_f(m, gear_arg, flap_arg, speedbrake_arg) ==
    [m EXCEPT
       !.target_gear =
           IF gear_arg = NoArg THEN @ ELSE Clamp(ArgValue(gear_arg), 0, Quant),
       !.target_flap =
           IF flap_arg = NoArg THEN @ ELSE Clamp(ArgValue(flap_arg), 0, Quant),
       !.target_speedbrake =
           IF speedbrake_arg = NoArg THEN @
           ELSE Clamp(ArgValue(speedbrake_arg), 0, Quant)]

\* HydraulicSystem.update(demand, dt, pump_power); pump_fails is the outcome
\* of the random draw against failure_chance * dt.  Returns the new pressure
\* and pump_on.
hydraulics_update_f(pressure, pump_on, demand, dt, pump_power, pump_fails) ==
    LET pumping == pump_on /\ pump_power
        gain == IF pumping /\ ~pump_fails THEN HydPumpRatePct * dt * Quant ELSE 0
        loss == (HydLeakRatePct * Quant + HydUsageFactorPct * demand) * dt
    IN  [pressure |-> Clamp(Round100(100 * pressure + gain - loss), 0, Quant),
         pump_on |-> IF pumping /\ pump_fails THEN FALSE ELSE pump_on]

\* one surface of SystemManager.update: max(min(d, max_d), -max_d)
RateLimited(d, max_d) == Max(Min(d, max_d), -max_d)

\* Mutant of systems_update_f: the operable flags are recomputed from the
\* current speed in every update instead of latching.
systems_update_unlatched(m, dt, pump_power, speed_kt, pump_fails) ==
    LET d_flap == m.target_flap - m.flap
        d_gear == m.target_gear - m.gear
        d_speedbrake == m.target_speedbrake - m.speedbrake
        demand == Abs(d_flap) + Abs(d_gear) + Abs(d_speedbrake)
        h == hydraulics_update_f(m.pressure, m.pump_on, demand, dt,
                                 pump_power, pump_fails)
        max_d == Round100(ActuatorRatePct * dt * h.pressure)
        flap_over == speed_kt > FlapOverspeedKt /\ Abs(d_flap) > 0
        gear_over == speed_kt > GearOverspeedKt /\ Abs(d_gear) > 0
    IN  [m EXCEPT
           !.pressure = h.pressure,
           !.pump_on = h.pump_on,
           !.flap_operable = ~flap_over,
           !.flap = IF ~flap_over THEN @ + RateLimited(d_flap, max_d) ELSE @,
           !.gear_operable = ~gear_over,
           !.gear = IF ~gear_over THEN @ + RateLimited(d_gear, max_d) ELSE @,
           !.speedbrake = @ + RateLimited(d_speedbrake, max_d),
           !.speed_seen = speed_kt]

\* Mutant of systems_update_f: a surface above its overspeed limit is
\* damaged whether or not it is commanded to move.
systems_update_damage_at_rest(m, dt, pump_power, speed_kt, pump_fails) ==
    LET d_flap == m.target_flap - m.flap
        d_gear == m.target_gear - m.gear
        d_speedbrake == m.target_speedbrake - m.speedbrake
        demand == Abs(d_flap) + Abs(d_gear) + Abs(d_speedbrake)
        h == hydraulics_update_f(m.pressure, m.pump_on, demand, dt,
                                 pump_power, pump_fails)
        max_d == Round100(ActuatorRatePct * dt * h.pressure)
        flap_over == speed_kt > FlapOverspeedKt
        gear_over == speed_kt > GearOverspeedKt
    IN  [m EXCEPT
           !.pressure = h.pressure,
           !.pump_on = h.pump_on,
           !.flap_operable = IF @ /\ flap_over THEN FALSE ELSE @,
           !.flap = IF m.flap_operable /\ ~flap_over
                    THEN @ + RateLimited(d_flap, max_d) ELSE @,
           !.gear_operable = IF @ /\ gear_over THEN FALSE ELSE @,
           !.gear = IF m.gear_operable /\ ~gear_over
                    THEN @ + RateLimited(d_gear, max_d) ELSE @,
           !.speedbrake = @ + RateLimited(d_speedbrake, max_d),
           !.speed_seen = speed_kt]

\* SystemManager.update(dt, pump_power, speed_kt)
systems_update_f(m, dt, pump_power, speed_kt, pump_fails) ==
    LET d_flap == m.target_flap - m.flap
        d_gear == m.target_gear - m.gear
        d_speedbrake == m.target_speedbrake - m.speedbrake
        demand == Abs(d_flap) + Abs(d_gear) + Abs(d_speedbrake)
        h == hydraulics_update_f(m.pressure, m.pump_on, demand, dt,
                                 pump_power, pump_fails)
        max_d == Round100(ActuatorRatePct * dt * h.pressure)
        flap_over == speed_kt > FlapOverspeedKt /\ Abs(d_flap) > 0
        gear_over == speed_kt > GearOverspeedKt /\ Abs(d_gear) > 0
    IN  [m EXCEPT
           !.pressure = h.pressure,
           !.pump_on = h.pump_on,
           !.flap_operable = IF @ /\ flap_over THEN FALSE ELSE @,
           !.flap = IF m.flap_operable /\ ~flap_over
                    THEN @ + RateLimited(d_flap, max_d) ELSE @,
           !.gear_operable = IF @ /\ gear_over THEN FALSE ELSE @,
           !.gear = IF m.gear_operable /\ ~gear_over
                    THEN @ + RateLimited(d_gear, max_d) ELSE @,
           !.speedbrake = @ + RateLimited(d_speedbrake, max_d),
           !.speed_seen = speed_kt]

\* --- operations -----------------------------------------------------------

\* SystemManager.set_targets(gear, flap, speedbrake), also reached through
\* FlightControlPanel
SystemManager_set_targets(gear_arg, flap_arg, speedbrake_arg) ==
    /\ op' = "set_targets"
    /\ sys' = set_targets_f(sys, gear_arg, flap_arg, speedbrake_arg)
    /\ UNCHANGED notSys

SystemManager_update(dt, pump_power, speed_kt, pump_fails) ==
    /\ op' = "systems_update"
    /\ sys' = systems_update_f(sys, dt, pump_power, speed_kt, pump_fails)
    /\ UNCHANGED notSys

SysIdle == sys = SysConstructed
(***************************************************************************)
(* AutobrakeSystem                                                         *)
(***************************************************************************)
ArmSpeedKt == 70            \* arm_speed_kt
DisarmSpeedKt == 20         \* disarm_speed_kt
ThrottleThresholdPct == 30  \* throttle_threshold = 0.3

\* AutobrakeSystem.LEVELS, percent
LEVELS == [off |-> 0, low |-> 30, med |-> 60, high |-> 100]
LevelNames == DOMAIN LEVELS
LevelInputs == LevelNames \cup {"max"}       \* "max" is no level
AbSpeeds == {DisarmSpeedKt - 1, DisarmSpeedKt, ArmSpeedKt, ArmSpeedKt + 1}
AbThrottles == {ThrottleThresholdPct - 1, ThrottleThresholdPct}

AbRec == [level |-> ab_level, active |-> ab_active, command |-> brake_command]

\* AutobrakeSystem.set_level
set_level_f(a, level) ==
    IF level \in LevelNames
    THEN [a EXCEPT !.level = level, !.active = FALSE]
    ELSE a

\* Mutant of autobrake_update_f: leaving the ground does not disarm.
autobrake_update_no_air_disarm(a, on_ground, speed_kt, throttle) ==
    LET arm == on_ground /\ speed_kt > ArmSpeedKt
               /\ throttle < ThrottleThresholdPct
        disarm == throttle >= ThrottleThresholdPct \/ speed_kt < DisarmSpeedKt
        active == IF a.level = "off" THEN FALSE
                  ELSE IF disarm THEN FALSE
                  ELSE IF arm THEN TRUE
                  ELSE a.active
    IN  [a EXCEPT !.active = active,
                  !.command = IF active THEN Clamp(LEVELS[a.level], 0, 100) ELSE @]

\* AutobrakeSystem.update(on_ground, speed_kt, throttle): the arming test
\* runs first and the disarming test second, so disarming wins; while active
\* it calls brakes.set_command(LEVELS[level]), which clamps to [0, 1].
autobrake_update_f(a, on_ground, speed_kt, throttle) ==
    LET arm == on_ground /\ speed_kt > ArmSpeedKt
               /\ throttle < ThrottleThresholdPct
        disarm == ~on_ground \/ throttle >= ThrottleThresholdPct
                  \/ speed_kt < DisarmSpeedKt
        active == IF a.level = "off" THEN FALSE
                  ELSE IF disarm THEN FALSE
                  ELSE IF arm THEN TRUE
                  ELSE a.active
    IN  [a EXCEPT !.active = active,
                  !.command = IF active THEN Clamp(LEVELS[a.level], 0, 100) ELSE @]

\* AutobrakeSystem.set_level, the exception it raises ("none": it returns)
set_level_signal_f(level) == "none"

SetAutobrake(a) ==
    /\ ab_level' = a.level
    /\ ab_active' = a.active
    /\ brake_command' = a.command

\* --- operations -----------------------------------------------------------

\* AutobrakeSystem.set_level, also reached through AutobrakePanel.set_level
AutobrakeSystem_set_level(level) ==
    /\ op' = "set_level"
    /\ SetAutobrake(set_level_f(AbRec, level))
    /\ call_ret' = [call |-> "set_level", arg |-> {level},
                    signal |-> set_level_signal_f(level)]
    /\ UNCHANGED <<ab_args, notAutobrakeCall>>

AutobrakeSystem_update(on_ground, speed_kt, throttle) ==
    /\ op' = "autobrake_update"
    /\ SetAutobrake(autobrake_update_f(AbRec, on_ground, speed_kt, throttle))
    /\ ab_args' = [on_ground |-> on_ground, speed_kt |-> speed_kt,
                   throttle |-> throttle]
    /\ UNCHANGED notAutobrake

\* AutobrakeSystem(brakes) with a fresh BrakeSystem
AutobrakeIdle ==
    /\ ab_level = "off"
    /\ ab_active = FALSE
    /\ brake_command = 0
    /\ ab_args = [on_ground |-> FALSE, speed_kt |-> 0, throttle |-> 0]

(***************************************************************************)
(* FuelSystem.  Fuel is in pounds, time in seconds, flows in pounds/hour.  *)
(***************************************************************************)
ApuFlowPph == 150             \* apu_flow_pph
CrossfeedRatePph == 1200      \* crossfeed_rate_pph
BalanceThresholdLbs == 1000   \* balance_threshold_lbs
MaxFuelSteps == 60            \* tank contents range over 0 .. 25 * MaxFuelSteps

FuelGrid == {25 * k : k \in 0 .. MaxFuelSteps}
FuelDts == {600, 1200}        \* time steps, seconds: transfers of 200, 400 lb
CrossfeedDts == {600, 1800}   \* time steps with transfers of 200, 600 lb
BurnLbs == {0, 25, 200}       \* fuel an engine takes from its tank in one go

NoReturn == [kind |-> "none"]

\* Mutant of fuel_update_f: crossfeed engages with the imbalance at the
\* threshold, not only above it.
fuel_update_engage_at_threshold(left, right, on, apu, dt) ==
    LET diff == left - right
        on1 == on \/ Abs(diff) >= BalanceThresholdLbs
        xfeed_amt == Min(Abs(diff), (CrossfeedRatePph * dt) \div 3600)
        l1 == IF ~on1 THEN left
              ELSE IF diff > 0 THEN left - xfeed_amt ELSE left + xfeed_amt
        r1 == IF ~on1 THEN right
              ELSE IF diff > 0 THEN right + xfeed_amt ELSE right - xfeed_amt
        on2 == on1 /\ ~(5 * Abs(l1 - r1) < BalanceThresholdLbs)
        burn == (ApuFlowPph * dt) \div 3600
        l2 == IF apu THEN Max(l1 - burn, 0) ELSE l1
    IN  [left |-> l2, right |-> r1, crossfeed_on |-> on2,
         after_transfer |-> Abs(l1 - r1),
         apu_flow_pph |-> IF apu THEN ApuFlowPph ELSE 0]

\* Mutant of fuel_update_f: the APU burn is taken from the left tank without
\* the floor at 0.
fuel_update_unclamped_burn(left, right, on, apu, dt) ==
    LET diff == left - right
        on1 == on \/ Abs(diff) > BalanceThresholdLbs
        xfeed_amt == Min(Abs(diff), (CrossfeedRatePph * dt) \div 3600)
        l1 == IF ~on1 THEN left
              ELSE IF diff > 0 THEN left - xfeed_amt ELSE left + xfeed_amt
        r1 == IF ~on1 THEN right
              ELSE IF diff > 0 THEN right + xfeed_amt ELSE right - xfeed_amt
        on2 == on1 /\ ~(5 * Abs(l1 - r1) < BalanceThresholdLbs)
        burn == (ApuFlowPph * dt) \div 3600
        l2 == IF apu THEN l1 - burn ELSE l1
    IN  [left |-> l2, right |-> r1, crossfeed_on |-> on2,
         after_transfer |-> Abs(l1 - r1),
         apu_flow_pph |-> IF apu THEN ApuFlowPph ELSE 0]

\* Mutant of fuel_update_f: the disengage test reads the imbalance from
\* before the transfer.
fuel_update_stale_check(left, right, on, apu, dt) ==
    LET diff == left - right
        on1 == on \/ Abs(diff) > BalanceThresholdLbs
        xfeed_amt == Min(Abs(diff), (CrossfeedRatePph * dt) \div 3600)
        l1 == IF ~on1 THEN left
              ELSE IF diff > 0 THEN left - xfeed_amt ELSE left + xfeed_amt
        r1 == IF ~on1 THEN right
              ELSE IF diff > 0 THEN right + xfeed_amt ELSE right - xfeed_amt
        on2 == on1 /\ ~(5 * Abs(diff) < BalanceThresholdLbs)
        burn == (ApuFlowPph * dt) \div 3600
        l2 == IF apu THEN Max(l1 - burn, 0) ELSE l1
    IN  [left |-> l2, right |-> r1, crossfeed_on |-> on2,
         after_transfer |-> Abs(l1 - r1),
         apu_flow_pph |-> IF apu THEN ApuFlowPph ELSE 0]

\* Mutant of fuel_update_f: crossfeed is never engaged by the update, only
\* by the crew.
fuel_update_crew_engages(left, right, on, apu, dt) ==
    LET diff == left - right
        on1 == on
        xfeed_amt == Min(Abs(diff), (CrossfeedRatePph * dt) \div 3600)
        l1 == IF ~on1 THEN left
              ELSE IF diff > 0 THEN left - xfeed_amt ELSE left + xfeed_amt
        r1 == IF ~on1 THEN right
              ELSE IF diff > 0 THEN right + xfeed_amt ELSE right - xfeed_amt
        on2 == on1 /\ ~(5 * Abs(l1 - r1) < BalanceThresholdLbs)
        burn == (ApuFlowPph * dt) \div 3600
        l2 == IF apu THEN Max(l1 - burn, 0) ELSE l1
    IN  [left |-> l2, right |-> r1, crossfeed_on |-> on2,
         after_transfer |-> Abs(l1 - r1),
         apu_flow_pph |-> IF apu THEN ApuFlowPph ELSE 0]

\* FuelSystem.update, lines 520-559: left and right are the tank contents
\* read from the FDM, on is crossfeed_on, apu is electrics.apu_running, dt is
\* fdm.get_delta_t().  abs(left - right) < balance_threshold_lbs * 0.2 is
\* decided exactly as 5 * abs(left - right) < balance_threshold_lbs.
fuel_update_f(left, right, on, apu, dt) ==
    LET diff == left - right
        on1 == on \/ Abs(diff) > BalanceThresholdLbs
        xfeed_amt == Min(Abs(diff), (CrossfeedRatePph * dt) \div 3600)
        l1 == IF ~on1 THEN left
              ELSE IF diff > 0 THEN left - xfeed_amt ELSE left + xfeed_amt
        r1 == IF ~on1 THEN right
              ELSE IF diff > 0 THEN right + xfeed_amt ELSE right - xfeed_amt
        on2 == on1 /\ ~(5 * Abs(l1 - r1) < BalanceThresholdLbs)
        burn == (ApuFlowPph * dt) \div 3600
        l2 == IF apu THEN Max(l1 - burn, 0) ELSE l1
    IN  [left |-> l2, right |-> r1, crossfeed_on |-> on2,
         after_transfer |-> Abs(l1 - r1),
         apu_flow_pph |-> IF apu THEN ApuFlowPph ELSE 0]

\* --- operations -----------------------------------------------------------

\* FuelSystem.update: the tank properties are written back and the returned
\* record (left_lbs, right_lbs, total_lbs, apu_flow_pph, crossfeed) is kept in
\* fuel_ret together with the imbalance compared at line 538, the value
\* crossfeed_on had when the update began and whether the crew's FuelPanel
\* had set that value just before.
FuelSystem_update ==
    LET r == fuel_update_f(tank_left, tank_right, crossfeed_on, apu_running,
                           fdm_dt)
    IN  /\ op' = "fuel_update"
        /\ tank_left' = r.left
        /\ tank_right' = r.right
        /\ crossfeed_on' = r.crossfeed_on
        /\ fuel_ret' = [kind |-> "fuel", left_lbs |-> r.left,
                        right_lbs |-> r.right, total_lbs |-> r.left + r.right,
                        apu_flow_pph |-> r.apu_flow_pph,
                        crossfeed |-> r.crossfeed_on,
                        after_transfer |-> r.after_transfer,
                        entry_crossfeed |-> crossfeed_on,
                        overridden |-> op = "set_crossfeed"]
        /\ UNCHANGED <<envVars, notFuel>>

\* FuelPanel.enable_crossfeed / disable_crossfeed (toggle_crossfeed is one of
\* the two, depending on the current value)
FuelPanel_set_crossfeed(on) ==
    /\ op' = "set_crossfeed"
    /\ crossfeed_on' = on
    /\ fuel_ret' = NoReturn
    /\ UNCHANGED <<tank_left, tank_right, envVars, notFuel>>

\* fdm.run(): the engines take fuel from the tanks, never below empty
FDM_burn(bl, br) ==
    /\ op' = "fdm_burn"
    /\ tank_left' = Max(tank_left - bl, 0)
    /\ tank_right' = Max(tank_right - br, 0)
    /\ fuel_ret' = NoReturn
    /\ UNCHANGED <<crossfeed_on, envVars, notFuel>>

\* FuelSystem(fdm, engine, electrics) over tanks that hold nothing
FuelIdle ==
    /\ tank_left = 0
    /\ tank_right = 0
    /\ crossfeed_on = FALSE
    /\ fuel_ret = NoReturn

(***************************************************************************)
(* NavigationSystem, FlightManagementSystem, MCDU.direct_to                *)
(*                                                                         *)
(* The aircraft and the waypoints lie on one meridian, where the haversine *)
(* distance of _bearing_distance is 3440.065 * |dlat|; a latitude is held  *)
(* as its arc length in tenths of a nautical mile.                         *)
(***************************************************************************)
ArrivalRadius == 3          \* dist < 0.3 nm
MaxLat == 6                 \* latitudes range over 0 .. MaxLat
MaxRoute == 3               \* longest route

Lats == 0 .. MaxLat
WaypointLats == {1, 3, MaxLat}
Routes == UNION {[1 .. n -> WaypointLats] : n \in 0 .. MaxRoute}

\* NavigationSystem._bearing_distance, the distance it returns
NavDistance(lat1, lat2) == Abs(lat2 - lat1)

\* Mutant of nav_update_f: the index runs on past every waypoint in reach.
RECURSIVE nav_advance_all(_, _, _)
nav_advance_all(wps, idx, lat) ==
    IF idx < Len(wps) - 1 /\ NavDistance(lat, wps[idx + 1]) < ArrivalRadius
    THEN nav_advance_all(wps, idx + 1, lat)
    ELSE idx

\* NavigationSystem.update, the index it leaves.  Python indexes from 0, a
\* TLA+ sequence from 1: waypoints[index] is wps[idx + 1].
nav_update_f(wps, idx, lat) ==
    IF Len(wps) = 0 \/ idx >= Len(wps)
    THEN idx
    ELSE IF NavDistance(lat, wps[idx + 1]) < ArrivalRadius /\ idx < Len(wps) - 1
         THEN idx + 1
         ELSE idx

\* Mutant of direct_to_f: an index out of range is brought into the range.
direct_to_clamped(wps, idx, index) ==
    IF Len(wps) = 0 THEN idx ELSE Clamp(index, 0, Len(wps) - 1)

\* Mutant of direct_to_f: the range check is missing.
direct_to_unchecked(wps, idx, index) == index

\* MCDU.direct_to, the index it leaves (IndexError leaves it unchanged)
direct_to_f(wps, idx, index) ==
    IF ~(0 <= index /\ index < Len(wps)) THEN idx ELSE index

\* MCDU.direct_to, the exception it raises ("none": it returns)
direct_to_signal_f(wps, index) ==
    IF ~(0 <= index /\ index < Len(wps)) THEN "IndexError" ELSE "none"

\* --- operations -----------------------------------------------------------

NavigationSystem_update ==
    /\ op' = "nav_update"
    /\ nav_index' = nav_update_f(nav_waypoints, nav_index, ac_lat)
    /\ UNCHANGED <<nav_waypoints, ac_lat, notNav>>

\* NavigationSystem.add_waypoint / FlightManagementSystem.add_waypoint
NavigationSystem_add_waypoint(lat) ==
    /\ Len(nav_waypoints) < MaxRoute
    /\ op' = "add_waypoint"
    /\ nav_waypoints' = Append(nav_waypoints, lat)
    /\ UNCHANGED <<nav_index, ac_lat, notNav>>

\* FlightManagementSystem.load_route (MCDU.clear_route loads the empty route)
FlightManagementSystem_load_route(wpts) ==
    /\ op' = "load_route"
    /\ nav_waypoints' = wpts
    /\ nav_index' = 0
    /\ UNCHANGED <<ac_lat, notNav>>

FlightManagementSystem_advance_waypoint ==
    /\ op' = "advance_waypoint"
    /\ nav_index' = IF nav_index < Len(nav_waypoints) - 1
                    THEN nav_index + 1 ELSE nav_index
    /\ UNCHANGED <<nav_waypoints, ac_lat, notNav>>

MCDU_direct_to(index) ==
    /\ op' = "direct_to"
    /\ nav_index' = direct_to_f(nav_waypoints, nav_index, index)
    /\ call_ret' = [call |-> "direct_to", arg |-> {index},
                    signal |-> direct_to_signal_f(nav_waypoints, index)]
    /\ UNCHANGED <<nav_waypoints, ac_lat, notNavCall>>

\* fdm.run(): the aircraft moves
FDM_move(lat) ==
    /\ op' = "fdm_move"
    /\ ac_lat' = lat
    /\ UNCHANGED <<nav_waypoints, nav_index, notNav>>

\* NavigationSystem(fdm) without waypoints
NavIdle ==
    /\ nav_waypoints = <<>>
    /\ nav_index = 0
    /\ ac_lat = 0

(***************************************************************************)
(* Engine with its OilSystem.  Throttle, EGT, oil pressure and oil         *)
(* temperature are percentages of 1.0, timers are seconds; a product of    *)
(* two percentages is divided by 100 and rounded down.                     *)
(***************************************************************************)
SpoolRatePct == 20          \* spool_rate = 0.2
EgtRiseRatePct == 50        \* egt_rise_rate = 0.5
EgtCoolRatePct == 20        \* egt_cool_rate = 0.2
EgtMaxPct == 150            \* min(self.egt, 1.5)
EgtLimitPct == 120          \* self.egt > 1.2
EgtTimeLimit == 5           \* self.egt_timer > 5.0
OilPressureLowPct == 20     \* oil_p < 0.2
OilTempHighPct == 120       \* oil_t > 1.2
OilTimeLimit == 5           \* self.oil_timer > 5.0
FireTimeLimit == 10         \* self.fire_timer > 10.0
OilPumpRatePct == 50        \* OilSystem pump_rate = 0.5
OilLeakRatePct == 2         \* OilSystem leak_rate = 0.02
OilHeatRatePct == 30        \* OilSystem heat_rate = 0.3
OilCoolRatePct == 10        \* OilSystem cool_rate = 0.1

MaxTimer == 12              \* Engine.update is explored while timers <= this
MaxOilTemp == 140           \* ... and while the oil temperature is <= this
MaxOilLoss == 10            \* ... and the oil pressure has lost <= this
CruiseThrottle == 20        \* a thrust setting at which EGT and oil settle
ThrottleInputs == {-20, 0, 100, 120}   \* arguments of set_target, percent
TestEngines == {0}          \* the Engine object that is exercised on its own

\* Engine.__init__ with OilSystem(): every field but failed
EngineConstructed ==
    [throttle |-> 0, target |-> 0, efficiency |-> 100,
     egt |-> 40, egt_timer |-> 0,
     oil_pressure |-> 100, oil_temperature |-> 20, oil_pump_on |-> TRUE,
     oil_timer |-> 0, fire |-> FALSE, fire_timer |-> 0]

EngineFields == DOMAIN EngineConstructed

\* Engine i with the FDM properties it writes: the fields of eng[i] and
\* failed, run (set-running), cmd (throttle-cmd-norm).
EngineRec(i) ==
    [f \in EngineFields \cup {"failed", "run", "cmd"} |->
        IF f = "failed" THEN failed[i]
        ELSE IF f = "run" THEN set_running[i]
        ELSE IF f = "cmd" THEN throttle_cmd[i]
        ELSE eng[i][f]]

\* the fields kept in eng[i]
EngineState(e) == [f \in EngineFields |-> e[f]]

\* Engine.set_target
engine_set_target_f(e, throttle) ==
    [e EXCEPT !.target = Clamp(throttle, 0, 100)]

\* Mutant of engine_restart_f: the restart also re-initialises the engine.
engine_restart_reinit(e) ==
    [e EXCEPT !.failed = FALSE, !.throttle = 0, !.target = 0,
              !.fire = FALSE, !.fire_timer = 0, !.egt = 40, !.egt_timer = 0,
              !.oil_timer = 0]

\* Engine.restart
engine_restart_f(e) ==
    [e EXCEPT !.failed = FALSE]

\* Engine.extinguish_fire
engine_extinguish_fire_f(e) ==
    [e EXCEPT !.fire = FALSE, !.fire_timer = 0]

\* OilSystem.update(throttle, dt) on the oil fields of e; pump_fails is the
\* draw random.random() < failure_chance * dt
oil_update_f(e, throttle, dt, pump_fails) ==
    LET pumping == e.oil_pump_on /\ ~pump_fails
        p1 == IF pumping
              THEN e.oil_pressure + (OilPumpRatePct * throttle * dt) \div 100
              ELSE e.oil_pressure
        p2 == Clamp(p1 - OilLeakRatePct * dt, 0, 100)
        t1 == e.oil_temperature + (OilHeatRatePct * throttle * dt) \div 100
        t2 == Max(0, t1 - OilCoolRatePct * dt)
    IN  [e EXCEPT !.oil_pump_on = pumping, !.oil_pressure = p2,
                  !.oil_temperature = t2]

\* Mutant of engine_update_f: a failed engine keeps its throttle.
engine_update_keeps_throttle(e, dt, rand_fail, pump_fails, ignite) ==
    LET diff0 == e.target - e.throttle
        max_delta == (SpoolRatePct * (100 + 2 * Abs(diff0)) * dt) \div 100
        diff == Max(Min(diff0, max_delta), -max_delta)
        throttle == IF ~e.failed THEN e.throttle + diff ELSE e.throttle
        fail1 == ~e.failed /\ rand_fail
        cmd == (throttle * e.efficiency) \div 100
        egt == Clamp(e.egt + ((throttle * EgtRiseRatePct) \div 100
                              - EgtCoolRatePct) * dt, 0, EgtMaxPct)
        egt_timer == IF egt > EgtLimitPct THEN e.egt_timer + dt ELSE 0
        fail2 == egt_timer > EgtTimeLimit
        o == oil_update_f(e, throttle, dt, pump_fails)
        oil_timer == IF o.oil_pressure < OilPressureLowPct
                        \/ o.oil_temperature > OilTempHighPct
                     THEN e.oil_timer + dt ELSE 0
        fail3 == oil_timer > OilTimeLimit
        fire == e.fire \/ ignite
        fire_timer == IF fire THEN e.fire_timer + dt ELSE 0
        fail4 == fire /\ fire_timer > FireTimeLimit
        fails == fail1 \/ fail2 \/ fail3 \/ fail4
    IN  [o EXCEPT !.throttle = throttle, !.cmd = cmd,
                  !.egt = egt, !.egt_timer = egt_timer,
                  !.oil_timer = oil_timer,
                  !.fire = fire, !.fire_timer = fire_timer,
                  !.failed = e.failed \/ fails,
                  !.run = IF fails THEN 0 ELSE e.run]

\* Engine.update(dt), lines 79-120.  rand_fail is the draw
\* random.random() < failure_chance * dt, made only when the engine is not
\* failed; ignite is the draw random.random() < fire_chance * dt, made only
\* when there is no fire; pump_fails is the draw of OilSystem.update.  Each
\* of the four failure tests calls fail(), which sets failed and writes
\* set-running = 0.
engine_update_f(e, dt, rand_fail, pump_fails, ignite) ==
    LET diff0 == e.target - e.throttle
        max_delta == (SpoolRatePct * (100 + 2 * Abs(diff0)) * dt) \div 100
        diff == Max(Min(diff0, max_delta), -max_delta)
        throttle == IF ~e.failed THEN e.throttle + diff ELSE 0
        fail1 == ~e.failed /\ rand_fail
        cmd == (throttle * e.efficiency) \div 100
        egt == Clamp(e.egt + ((throttle * EgtRiseRatePct) \div 100
                              - EgtCoolRatePct) * dt, 0, EgtMaxPct)
        egt_timer == IF egt > EgtLimitPct THEN e.egt_timer + dt ELSE 0
        fail2 == egt_timer > EgtTimeLimit
        o == oil_update_f(e, throttle, dt, pump_fails)
        oil_timer == IF o.oil_pressure < OilPressureLowPct
                        \/ o.oil_temperature > OilTempHighPct
                     THEN e.oil_timer + dt ELSE 0
        fail3 == oil_timer > OilTimeLimit
        fire == e.fire \/ ignite
        fire_timer == IF fire THEN e.fire_timer + dt ELSE 0
        fail4 == fire /\ fire_timer > FireTimeLimit
        fails == fail1 \/ fail2 \/ fail3 \/ fail4
    IN  [o EXCEPT !.throttle = throttle, !.cmd = cmd,
                  !.egt = egt, !.egt_timer = egt_timer,
                  !.oil_timer = oil_timer,
                  !.fire = fire, !.fire_timer = fire_timer,
                  !.failed = e.failed \/ fails,
                  !.run = IF fails THEN 0 ELSE e.run]

\* The timers and the oil temperature grow without limit in the code, and a
\* stopped engine leaks oil pressure for 50 seconds; the model stops
\* updating an engine once one of them has passed its bound.
EngineBounded(e) ==
    /\ e.oil_pressure >= 100 - MaxOilLoss
    /\ e.egt_timer <= MaxTimer
    /\ e.oil_timer <= MaxTimer
    /\ e.fire_timer <= MaxTimer
    /\ e.oil_temperature <= MaxOilTemp

\* the assignments of one engine's new value e
SetEngine(i, e) ==
    /\ eng' = [eng EXCEPT ![i] = EngineState(e)]
    /\ failed' = [failed EXCEPT ![i] = e.failed]
    /\ set_running' = [set_running EXCEPT ![i] = e.run]
    /\ throttle_cmd' = [throttle_cmd EXCEPT ![i] = e.cmd]

\* history of the fires: the age of engine i's fire after an update that
\* left the fire flag at fire_now, and the queue of burning engines
FireAgeAfter(i, fire_now, dt) ==
    IF fire_now THEN fire_age[i] + dt ELSE 0

\* history of the failure: the time engine i has spent failed after an
\* update of dt seconds that found it failed or not failed
FailedTimeAfter(i, dt) ==
    IF failed[i] THEN failed_time[i] + dt ELSE 0

RECURSIVE QueueWithout(_, _)
QueueWithout(q, i) ==
    IF q = <<>> THEN <<>>
    ELSE IF Head(q) = i THEN QueueWithout(Tail(q), i)
    ELSE <<Head(q)>> \o QueueWithout(Tail(q), i)

QueueAfter(q, i, fire_before, fire_now) ==
    IF fire_now /\ ~fire_before THEN Append(q, i)
    ELSE IF ~fire_now THEN QueueWithout(q, i)
    ELSE q

\* --- operations -----------------------------------------------------------

Engine_set_target(i, throttle) ==
    /\ op' = "engine_set_target"
    /\ SetEngine(i, engine_set_target_f(EngineRec(i), throttle))
    /\ UNCHANGED <<eng_draws, fire_age, failed_time, fireVars, notEngine>>

\* Engine.update(dt) on engine i, dt being the simulator's time step.  The
\* engine's OilSystem() has failure_chance 0.0: its pump never fails.
Engine_update(i, rand_fail, ignite) ==
    LET e == engine_update_f(EngineRec(i), fdm_dt, rand_fail, FALSE, ignite)
    IN  /\ EngineBounded(EngineRec(i))
        /\ op' = "engine_update"
        /\ SetEngine(i, e)
        /\ eng_draws' = IF rand_fail /\ ~failed[i] THEN {i} ELSE {}
        /\ fire_age' = [fire_age EXCEPT ![i] = FireAgeAfter(i, e.fire, fdm_dt)]
        /\ failed_time' = [failed_time EXCEPT ![i] = FailedTimeAfter(i, fdm_dt)]
        /\ fire_queue' = QueueAfter(fire_queue, i, eng[i].fire, e.fire)
        /\ UNCHANGED <<fs_bottles, fs_timer, fs_active_engine, fs_ret,
                       notEngine>>

\* EngineSystem.update(dt): Engine.update on every engine, in index order.
\* G is the set of engines whose ignition draw succeeds; no random failure
\* and no oil pump failure is drawn.
EngineSystem_update(G) ==
    LET e == [i \in Engines |->
                 engine_update_f(EngineRec(i), fdm_dt, FALSE, FALSE, i \in G)]
        q0 == QueueAfter(fire_queue, 0, eng[0].fire, e[0].fire)
    IN  /\ \A i \in Engines : EngineBounded(EngineRec(i))
        /\ op' = "engines_update"
        /\ eng' = [i \in Engines |-> EngineState(e[i])]
        /\ failed' = [i \in Engines |-> e[i].failed]
        /\ set_running' = [i \in Engines |-> e[i].run]
        /\ throttle_cmd' = [i \in Engines |-> e[i].cmd]
        /\ eng_draws' = {}
        /\ fire_age' = [i \in Engines |-> FireAgeAfter(i, e[i].fire, fdm_dt)]
        /\ failed_time' = [i \in Engines |-> FailedTimeAfter(i, fdm_dt)]
        /\ fire_queue' = QueueAfter(q0, 1, eng[1].fire, e[1].fire)
        /\ UNCHANGED <<fs_bottles, fs_timer, fs_active_engine, fs_ret,
                       notEngine>>

\* Engine.restart, also reached through EngineSystem.restart(index)
Engine_restart(i) ==
    /\ op' = "engine_restart"
    /\ SetEngine(i, engine_restart_f(EngineRec(i)))
    /\ UNCHANGED <<eng_draws, fire_age, failed_time, fireVars, notEngine>>

Engine_extinguish_fire(i) ==
    /\ op' = "extinguish_fire"
    /\ SetEngine(i, engine_extinguish_fire_f(EngineRec(i)))
    /\ fire_age' = [fire_age EXCEPT ![i] = 0]
    /\ fire_queue' = QueueWithout(fire_queue, i)
    /\ UNCHANGED <<eng_draws, failed_time, fs_bottles, fs_timer,
                   fs_active_engine, fs_ret, notEngine>>

\* EngineSystem.set_target: Engine.set_target on every engine
EngineSystem_set_target(throttle) ==
    /\ op' = "engines_set_target"
    /\ eng' = [i \in Engines |->
                  EngineState(engine_set_target_f(EngineRec(i), throttle))]
    /\ UNCHANGED <<failed, set_running, throttle_cmd, eng_draws, fire_age,
                   failed_time, fireVars, notEngine>>

\* Engine(fdm, i) for every engine
EngineIdle ==
    /\ eng = [i \in Engines |-> EngineConstructed]
    /\ throttle_cmd = [i \in Engines |-> 0]
    /\ eng_draws = {}
    /\ fire_age = [i \in Engines |-> 0]
    /\ failed_time = [i \in Engines |-> 0]

(***************************************************************************)
(* FireSuppressionSystem                                                   *)
(***************************************************************************)
FsBottles == 2              \* bottles = 2
ExtinguishTime == 1         \* self.timer > 1.0
FireDt == ExtinguishTime     \* a time step that makes a service last two updates

NoEngine == {}              \* active_engine is None
NoFireReturn == [started |-> NoEngine, cleared |-> NoEngine, fire |-> FALSE]

\* the first engine, in index order, that is burning; {} when none is
FirstBurning(fire) ==
    IF \E i \in Engines : fire[i]
    THEN {CHOOSE i \in Engines : fire[i] /\ \A k \in Engines : fire[k] => i <= k}
    ELSE NoEngine

\* Mutant of fire_update_f: a bottle is used on every update that services
\* an engine, not only on the one that starts the service.
fire_update_bottle_per_tick(fs, fire, dt) ==
    LET start == IF fs.active_engine = NoEngine /\ fs.bottles > 0
                 THEN FirstBurning(fire) ELSE NoEngine
        active1 == IF start # NoEngine THEN start ELSE fs.active_engine
        bottles1 == IF active1 # NoEngine THEN fs.bottles - 1 ELSE fs.bottles
        timer0 == IF start # NoEngine THEN 0 ELSE fs.timer
        timer1 == IF active1 # NoEngine THEN timer0 + dt ELSE timer0
        cleared == IF active1 # NoEngine /\ timer1 > ExtinguishTime
                   THEN active1 ELSE NoEngine
    IN  [bottles |-> bottles1, timer |-> timer1,
         active_engine |-> IF cleared # NoEngine THEN NoEngine ELSE active1,
         started |-> start, cleared |-> cleared]

\* Mutant of fire_update_f: the scan does not look at the bottle count.
fire_update_no_bottle_check(fs, fire, dt) ==
    LET start == IF fs.active_engine = NoEngine
                 THEN FirstBurning(fire) ELSE NoEngine
        bottles1 == IF start # NoEngine THEN Max(fs.bottles - 1, 0)
                    ELSE fs.bottles
        active1 == IF start # NoEngine THEN start ELSE fs.active_engine
        timer0 == IF start # NoEngine THEN 0 ELSE fs.timer
        timer1 == IF active1 # NoEngine THEN timer0 + dt ELSE timer0
        cleared == IF active1 # NoEngine /\ timer1 > ExtinguishTime
                   THEN active1 ELSE NoEngine
    IN  [bottles |-> bottles1, timer |-> timer1,
         active_engine |-> IF cleared # NoEngine THEN NoEngine ELSE active1,
         started |-> start, cleared |-> cleared]

\* FireSuppressionSystem.update(dt), lines 996-1009: fs = [bottles, timer,
\* active_engine], fire is the engines' fire flags.  The result also names
\* the engine whose service this update started and the engine on which it
\* called extinguish_fire().
fire_update_f(fs, fire, dt) ==
    LET start == IF fs.active_engine = NoEngine /\ fs.bottles > 0
                 THEN FirstBurning(fire) ELSE NoEngine
        bottles1 == IF start # NoEngine THEN fs.bottles - 1 ELSE fs.bottles
        active1 == IF start # NoEngine THEN start ELSE fs.active_engine
        timer0 == IF start # NoEngine THEN 0 ELSE fs.timer
        timer1 == IF active1 # NoEngine THEN timer0 + dt ELSE timer0
        cleared == IF active1 # NoEngine /\ timer1 > ExtinguishTime
                   THEN active1 ELSE NoEngine
    IN  [bottles |-> bottles1, timer |-> timer1,
         active_engine |-> IF cleared # NoEngine THEN NoEngine ELSE active1,
         started |-> start, cleared |-> cleared]

FsRec == [bottles |-> fs_bottles, timer |-> fs_timer,
          active_engine |-> fs_active_engine]

EngineFires == [i \in Engines |-> eng[i].fire]

\* --- operations -----------------------------------------------------------

\* FireSuppressionSystem.update(dt) with the extinguish_fire() it calls; it
\* returns engines.fire
FireSuppressionSystem_update ==
    LET r == fire_update_f(FsRec, EngineFires, fdm_dt)
        eng1 == [i \in Engines |->
                    IF i \in r.cleared
                    THEN EngineState(engine_extinguish_fire_f(EngineRec(i)))
                    ELSE eng[i]]
    IN  /\ op' = "fire_update"
        /\ fs_bottles' = r.bottles
        /\ fs_timer' = r.timer
        /\ fs_active_engine' = r.active_engine
        /\ eng' = eng1
        /\ fs_ret' = [started |-> r.started, cleared |-> r.cleared,
                      fire |-> \E i \in Engines : eng1[i].fire]
        /\ fire_age' = [i \in Engines |->
                           IF i \in r.cleared THEN 0 ELSE fire_age[i]]
        /\ fire_queue' = IF r.cleared = NoEngine THEN fire_queue
                         ELSE QueueWithout(fire_queue,
                                           CHOOSE i \in r.cleared : TRUE)
        /\ UNCHANGED <<failed, set_running, throttle_cmd, eng_draws,
                       failed_time, notEngine>>

\* FireSuppressionSystem(engines)
FireIdle ==
    /\ fs_bottles = FsBottles
    /\ fs_timer = 0
    /\ fs_active_engine = NoEngine
    /\ fs_ret = NoFireReturn
    /\ fire_queue = <<>>

(***************************************************************************)
(* BrakeSystem.  Heat and command are percentages of 1.0.                  *)
(***************************************************************************)
BrakeHeatRatePct == 30      \* heat_rate = 0.3
BrakeCoolRatePct == 5       \* cool_rate = 0.05
BrakeCommandInputs == {-10, 40, 130}   \* arguments of set_command, percent
StepSpeeds == {DisarmSpeedKt - 1, ArmSpeedKt + 1}   \* speeds read by step()
StepThrottles == {ThrottleThresholdPct - 1}         \* engine throttle read

BrakeRec == [heat |-> brake_heat, command |-> brake_command,
             parking_brake |-> parking_brake]

\* Mutant of brake_set_command_f: the command is stored as given.
brake_set_command_unclamped(b, cmd) ==
    [b EXCEPT !.command = cmd]

\* BrakeSystem.set_command
brake_set_command_f(b, cmd) ==
    [b EXCEPT !.command = Clamp(cmd, 0, 100)]

\* BrakeSystem.set_parking_brake
brake_set_parking_brake_f(b, on) ==
    [b EXCEPT !.parking_brake = on]

\* Mutant of brake_update_f: off the ground nothing is applied, parking
\* brake or not.
brake_update_ground_only(b, on_ground, dt) ==
    LET command == IF ~on_ground THEN 0 ELSE b.command
        applied == IF ~on_ground THEN 0
                   ELSE Max(command, IF b.parking_brake THEN 100 ELSE 0)
        h1 == b.heat + (BrakeHeatRatePct * applied * dt) \div 100
        h2 == h1 - BrakeCoolRatePct * dt
    IN  [heat |-> Clamp(h2, 0, 100), command |-> command,
         parking_brake |-> b.parking_brake, applied |-> applied]

\* BrakeSystem.update(on_ground, dt), lines 309-317; applied is the local
\* variable of that name
brake_update_f(b, on_ground, dt) ==
    LET command == IF ~on_ground /\ ~b.parking_brake THEN 0 ELSE b.command
        applied == Max(command, IF b.parking_brake THEN 100 ELSE 0)
        h1 == b.heat + (BrakeHeatRatePct * applied * dt) \div 100
        h2 == h1 - BrakeCoolRatePct * dt
    IN  [heat |-> Clamp(h2, 0, 100), command |-> command,
         parking_brake |-> b.parking_brake, applied |-> applied]

\* Mutant of manage_brakes_f: the command follows the ground speed whether
\* or not the autobrake is active.
manage_brakes_always_manual(a, on_ground, speed_kt, throttle) ==
    LET a1 == autobrake_update_f(a, on_ground, speed_kt, throttle)
    IN  [a1 EXCEPT !.command =
            IF on_ground /\ speed_kt > 30
            THEN Clamp(Min(((speed_kt - 30) * 100) \div 40, 100), 0, 100)
            ELSE 0]

\* Autopilot._manage_systems, lines 1251-1262: the brake command.  a is the
\* autobrake with the brake command (AbRec); the autobrake is updated and,
\* when it is not active, the command follows the ground speed.
manage_brakes_f(a, on_ground, speed_kt, throttle) ==
    LET a1 == autobrake_update_f(a, on_ground, speed_kt, throttle)
    IN  IF a1.active THEN a1
        ELSE [a1 EXCEPT !.command =
                 IF on_ground /\ speed_kt > 30
                 THEN Clamp(Min(((speed_kt - 30) * 100) \div 40, 100), 0, 100)
                 ELSE 0]

NoBrakeReturn == [on_ground |-> FALSE, applied |-> 0]

\* --- operations -----------------------------------------------------------

BrakeSystem_set_command(cmd) ==
    /\ op' = "brake_set_command"
    /\ brake_command' = brake_set_command_f(BrakeRec, cmd).command
    /\ UNCHANGED <<brake_heat, parking_brake, brake_ret, notBrake>>

\* A320IFRSim.set_parking_brake -> BrakeSystem.set_parking_brake
A320IFRSim_set_parking_brake(on) ==
    /\ op' = "set_parking_brake"
    /\ parking_brake' = brake_set_parking_brake_f(BrakeRec, on).parking_brake
    /\ UNCHANGED <<brake_heat, brake_command, brake_ret, notBrake>>

BrakeSystem_update(on_ground) ==
    LET b == brake_update_f(BrakeRec, on_ground, fdm_dt)
    IN  /\ op' = "brake_update"
        /\ brake_heat' = b.heat
        /\ brake_command' = b.command
        /\ brake_ret' = [on_ground |-> on_ground, applied |-> b.applied]
        /\ UNCHANGED <<parking_brake, notBrake>>

\* BrakeSystem()
BrakeIdle ==
    /\ brake_heat = 0
    /\ parking_brake = FALSE
    /\ brake_ret = NoBrakeReturn

(***************************************************************************)
(* MasterCautionSystem and the warnings of A320IFRSim.step                 *)
(***************************************************************************)
NoWarnings == [n \in {} |-> FALSE]          \* the empty dict
WarningNames == {"stall", "gpws", "overspeed", "fire", "tcas"}

\* MasterCautionSystem.set_warning
set_warning_f(w, name, state) ==
    [n \in DOMAIN w \cup {name} |-> IF n = name THEN state ELSE w[n]]

\* MasterCautionSystem.is_active
is_active_f(w) == \E n \in DOMAIN w : w[n]

\* A320IFRSim.step, lines 1563-1566: the four set_warning calls
step_warnings_f(w, stall, gpws, overspeed, fire) ==
    set_warning_f(set_warning_f(set_warning_f(set_warning_f(
        w, "stall", stall), "gpws", gpws), "overspeed", overspeed),
        "fire", fire)

NoStepReturn ==
    [stall_warning |-> FALSE, gpws_warning |-> FALSE,
     overspeed_warning |-> FALSE, engine_fire |-> FALSE,
     tcas_alert |-> FALSE, master_caution |-> FALSE,
     parking_brake |-> FALSE]

\* --- operations -----------------------------------------------------------

\* MasterCautionSystem.reset
MasterCautionSystem_reset ==
    /\ op' = "caution_reset"
    /\ warnings' = NoWarnings
    /\ UNCHANGED <<step_ret, envVars, starterVars, sysVars, abVars, fuelVars,
                   navVars, engVars, fireVars, brakeVars, apVars,
                   deckVars, callVars>>

\* A320IFRSim.step, as far as it touches the brakes and the autobrake.  In
\* autopilot.update(), _manage_systems sets the brake command
\* (auto_manage_systems is on, as constructed) and brakes.update(on_ground,
\* dt) runs; of the returned dict, parking_brake is kept.  on_ground, speed_kt and throttle are what the autopilot
\* reads from the FDM and the engines.
A320IFRSim_step_brakes(on_ground, speed_kt, throttle) ==
    LET a == manage_brakes_f(AbRec, on_ground, speed_kt, throttle)
        b == brake_update_f([BrakeRec EXCEPT !.command = a.command],
                            on_ground, fdm_dt)
    IN  /\ op' = "step_brakes"
        /\ ab_level' = a.level
        /\ ab_active' = a.active
        /\ ab_args' = [on_ground |-> on_ground, speed_kt |-> speed_kt,
                       throttle |-> throttle]
        /\ brake_command' = b.command
        /\ brake_heat' = b.heat
        /\ brake_ret' = [on_ground |-> on_ground, applied |-> b.applied]
        /\ step_ret' = [step_ret EXCEPT !.parking_brake = parking_brake]
        /\ UNCHANGED <<parking_brake, warnings, envVars, starterVars, sysVars,
                       fuelVars, navVars, engVars, fireVars, apVars,
                       deckVars, callVars>>

\* A320IFRSim.step, as far as it touches the master caution, lines
\* 1547-1567 and the returned dict.  W is the set of warnings that are on in
\* this tick: stall, gpws and overspeed are what the three warning systems'
\* update() returned, fire is engines.fire after fire_suppr.update(), tcas
\* tells that tcas.update() returned an alert (not None).  They depend on
\* flight state outside this slice and are drawn from their ranges.
A320IFRSim_step_warnings(W) ==
    LET w == step_warnings_f(warnings, "stall" \in W, "gpws" \in W,
                             "overspeed" \in W, "fire" \in W)
    IN  /\ op' = "step_warnings"
        /\ warnings' = w
        /\ step_ret' = [step_ret EXCEPT !.stall_warning = "stall" \in W,
                                        !.gpws_warning = "gpws" \in W,
                                        !.overspeed_warning = "overspeed" \in W,
                                        !.engine_fire = "fire" \in W,
                                        !.tcas_alert = "tcas" \in W,
                                        !.master_caution = is_active_f(w),
                                        !.parking_brake = parking_brake]
        /\ UNCHANGED <<brakeVars, envVars, starterVars, sysVars, abVars,
                       fuelVars, navVars, engVars, fireVars, apVars,
                       deckVars, callVars>>

\* MasterCautionSystem() and no step() made yet
CautionIdle ==
    /\ warnings = NoWarnings
    /\ step_ret = NoStepReturn

(***************************************************************************)
(* Autopilot: heading and altitude targets and the vertical mode.          *)
(* Headings are degrees, altitudes feet, speeds knots, distances tenths of *)
(* a nautical mile.                                                        *)
(***************************************************************************)
CaptureWindow == 200        \* capture_window = 200.0
VnavMinDist == 1            \* nav_dist > 0.1 nm
VnavMinSpeed == 30          \* speed > 30.0
IlsHdg == 270               \* runway heading of the simulator's ILSSystem

ApAltitudes == {3000, 4000}                 \* altitudes read from the FDM
ApSpeeds == {VnavMinSpeed, 250}
LocDevs == {{}, {-10}, {100}}               \* ILS localizer deviation or None
GsDevs == {100, 500}                        \* ILS glideslope deviation, feet
WaypointAlts == {{}, {3000}}                \* altitude of a waypoint or None
ApAltitudeArgs == {{}, {3000}, {4000}}      \* set_targets(altitude=...)
ApHeadingArgs == {{}, {-90}, {90}, {360}}   \* set_targets(heading=...)
ApRoutes == {<<>>, <<1, MaxLat>>}

\* NavigationSystem._bearing_distance, the bearing it returns on a meridian:
\* north is 0, south is 180
NavBearing(lat1, lat2) == IF lat2 >= lat1 THEN 0 ELSE 180

\* Autopilot.set_targets, the altitude and heading it leaves
ap_set_targets_f(ap, altitude_arg, heading_arg) ==
    [ap EXCEPT !.altitude = IF altitude_arg = NoArg THEN @
                            ELSE ArgValue(altitude_arg),
               !.heading = IF heading_arg = NoArg THEN @
                           ELSE ArgValue(heading_arg)]

\* Autopilot.update, lines 1283-1336 and 1381: ap = [heading, altitude,
\* vertical_mode]; alt and speed are read from the FDM; loc_dev and gs_dev
\* are what ils.update() returned; idx is the index nav.update() left;
\* wp_alt is the altitude of the waypoint then active.  The result also
\* tells which of the mode conditions held.
ap_update_f(ap, alt, speed, loc_dev, gs_dev, wps, idx, lat, wp_alt) ==
    LET ils == loc_dev # NoArg
        heading1 == IF ils THEN IlsHdg + ArgValue(loc_dev) ELSE ap.heading
        altitude1 == IF ils THEN alt - gs_dev ELSE ap.altitude
        mode1 == IF ils THEN "APP" ELSE "VS"
        nav == ~(Len(wps) = 0 \/ idx >= Len(wps))
        nav_dist == IF nav THEN NavDistance(lat, wps[idx + 1]) ELSE 0
        heading2 == IF nav THEN NavBearing(lat, wps[idx + 1]) ELSE heading1
        nav_alt == IF nav THEN wp_alt ELSE NoArg
        altitude2 == IF nav_alt # NoArg THEN ArgValue(nav_alt) ELSE altitude1
        vnav == nav_alt # NoArg /\ nav /\ nav_dist > VnavMinDist
                /\ speed > VnavMinSpeed
        mode2 == IF vnav THEN "VNAV" ELSE mode1
        alt_error == altitude2 - alt
        mode3 == IF Abs(alt_error) > CaptureWindow THEN mode2 ELSE "ALT"
    IN  [heading |-> heading2, altitude |-> altitude2, vertical_mode |-> mode3,
         ils |-> ils, vnav |-> vnav,
         captured |-> ~(Abs(alt_error) > CaptureWindow)]

ApRec == [heading |-> ap_heading, altitude |-> ap_altitude,
          vertical_mode |-> vertical_mode]

NoApArgs == [ils |-> FALSE, vnav |-> FALSE, captured |-> FALSE]

\* --- operations -----------------------------------------------------------

\* Autopilot.set_targets, also reached through AutopilotPanel.set_altitude
\* and set_heading
Autopilot_set_targets(altitude_arg, heading_arg) ==
    LET ap == ap_set_targets_f(ApRec, altitude_arg, heading_arg)
    IN  /\ op' = "ap_set_targets"
        /\ ap_heading' = ap.heading
        /\ ap_altitude' = ap.altitude
        /\ UNCHANGED <<vertical_mode, ap_args, navVars, notAutopilot>>

\* Autopilot.update, as far as it touches the targets, the vertical mode and
\* the navigation index (nav.update() runs inside it)
Autopilot_update(alt, speed, loc_dev, gs_dev, wp_alt) ==
    LET idx == nav_update_f(nav_waypoints, nav_index, ac_lat)
        ap == ap_update_f(ApRec, alt, speed, loc_dev, gs_dev, nav_waypoints,
                          idx, ac_lat, wp_alt)
    IN  /\ op' = "autopilot_update"
        /\ nav_index' = idx
        /\ ap_heading' = ap.heading
        /\ ap_altitude' = ap.altitude
        /\ vertical_mode' = ap.vertical_mode
        /\ ap_args' = [ils |-> ap.ils, vnav |-> ap.vnav,
                       captured |-> ap.captured]
        /\ UNCHANGED <<nav_waypoints, ac_lat, notAutopilot>>

\* Autopilot(...) as constructed
AutopilotIdle ==
    /\ ap_heading = 0
    /\ ap_altitude = 0
    /\ vertical_mode = "VS"
    /\ ap_args = NoApArgs


(***************************************************************************)
(* ElectricSystem with its RamAirTurbine.  The charge is a percentage of   *)
(* 1.0, the demand a percentage of the unit demand, times are seconds.     *)
(***************************************************************************)
ChargeRatePct == 20         \* charge_rate = 0.2
DischargeRatePct == 5       \* discharge_rate = 0.05
ApuChargeRatePct == 10      \* apu_charge_rate = 0.1
ApuStartTime == 5           \* apu_start_time = 5.0
ApuStartChargePct == 30     \* self.charge < 0.3
ApuStopChargePct == 95      \* self.charge > 0.95
PoweredChargePct == 5       \* self.charge > 0.05
RatDeployPct == 10          \* deploy_threshold = 0.1
RatRetractPct == 60         \* retract_threshold = 0.6
RatChargeRatePct == 5       \* RamAirTurbine charge_rate = 0.05

MaxApuTimer == 6            \* updates are explored while apu_timer <= this
\* electrical demand, percent: step passes the hydraulic demand plus 0.1
Demands == {20, 100, 300}

ElecRec == [charge |-> charge, apu_running |-> apu_running,
            apu_timer |-> apu_timer, generator_failed |-> generator_failed,
            rat_deployed |-> rat_deployed]

\* ElectricSystem.start_apu
start_apu_f(el) ==
    IF ~el.apu_running
    THEN [el EXCEPT !.apu_running = TRUE, !.apu_timer = 0]
    ELSE el

\* ElectricSystem.stop_apu
stop_apu_f(el) ==
    [el EXCEPT !.apu_running = FALSE]

\* ElectricSystem.is_powered
is_powered_f(el) == el.charge > PoweredChargePct

\* Mutant of rat_update_f: the turbine stays out when the generator is back.
rat_update_keeps_deployed(el, generator_available, dt) ==
    LET d1 == \/ el.rat_deployed
              \/ el.charge < RatDeployPct /\ ~generator_available
        d2 == d1 /\ ~(el.charge > RatRetractPct)
    IN  [el EXCEPT !.rat_deployed = d2,
                   !.charge = IF d2
                              THEN Min(100, el.charge + RatChargeRatePct * dt)
                              ELSE el.charge]

\* RamAirTurbine.update(electrics, generator_available, dt), lines 576-589
rat_update_f(el, generator_available, dt) ==
    LET d1 == \/ el.rat_deployed
              \/ el.charge < RatDeployPct /\ ~generator_available
        d2 == d1 /\ ~(el.charge > RatRetractPct \/ generator_available)
    IN  [el EXCEPT !.rat_deployed = d2,
                   !.charge = IF d2
                              THEN Min(100, el.charge + RatChargeRatePct * dt)
                              ELSE el.charge]

\* ElectricSystem.update before it calls rat.update: charging, discharging
\* and the automatic start and stop of the APU.  gen_fails is the draw
\* random.random() < generator_failure_chance * dt, made only when the
\* generator is on and has not failed.
elec_policy_f(el, generator_on, demand, gen_fails, dt) ==
    LET gen == generator_on /\ ~el.generator_failed
        gfailed == el.generator_failed \/ (gen /\ gen_fails)
        timer1 == IF ~gen /\ el.apu_running THEN el.apu_timer + dt
                  ELSE el.apu_timer
        charge1 == IF gen
                   THEN IF gen_fails THEN el.charge
                        ELSE el.charge + ChargeRatePct * dt
                   ELSE IF el.apu_running /\ timer1 >= ApuStartTime
                        THEN el.charge + ApuChargeRatePct * dt
                        ELSE el.charge
        charge2 == Clamp(charge1 - (demand * DischargeRatePct * dt) \div 100,
                         0, 100)
        gen_available == generator_on /\ ~gfailed
        el1 == [el EXCEPT !.charge = charge2, !.apu_timer = timer1,
                          !.generator_failed = gfailed]
        el2 == IF charge2 < ApuStartChargePct /\ ~gen_available
               THEN start_apu_f(el1) ELSE el1
    IN  IF charge2 > ApuStopChargePct /\ el2.apu_running /\ gen_available
        THEN stop_apu_f(el2) ELSE el2

\* Mutant of elec_update_f: the APU is not stopped when the battery has
\* recovered.
elec_update_no_stop(el, generator_on, demand, gen_fails, dt) ==
    LET gen == generator_on /\ ~el.generator_failed
        gfailed == el.generator_failed \/ (gen /\ gen_fails)
        timer1 == IF ~gen /\ el.apu_running THEN el.apu_timer + dt
                  ELSE el.apu_timer
        charge1 == IF gen
                   THEN IF gen_fails THEN el.charge
                        ELSE el.charge + ChargeRatePct * dt
                   ELSE IF el.apu_running /\ timer1 >= ApuStartTime
                        THEN el.charge + ApuChargeRatePct * dt
                        ELSE el.charge
        charge2 == Clamp(charge1 - (demand * DischargeRatePct * dt) \div 100,
                         0, 100)
        gen_available == generator_on /\ ~gfailed
        el1 == [el EXCEPT !.charge = charge2, !.apu_timer = timer1,
                          !.generator_failed = gfailed]
        el2 == IF charge2 < ApuStartChargePct /\ ~gen_available
               THEN start_apu_f(el1) ELSE el1
    IN  rat_update_f(el2, gen_available, dt)

\* ElectricSystem.update(generator_on, demand, dt), lines 623-650, with the
\* rat.update it ends with
elec_update_f(el, generator_on, demand, gen_fails, dt) ==
    LET el2 == elec_policy_f(el, generator_on, demand, gen_fails, dt)
    IN  rat_update_f(el2, generator_on /\ ~el2.generator_failed, dt)

NoElecReturn ==
    [generator_available |-> FALSE, charge_seen |-> 100,
     apu_before |-> FALSE, rat_before |-> FALSE]

SetElectric(el) ==
    /\ charge' = el.charge
    /\ apu_running' = el.apu_running
    /\ apu_timer' = el.apu_timer
    /\ generator_failed' = el.generator_failed
    /\ rat_deployed' = el.rat_deployed

\* --- operations -----------------------------------------------------------

\* ElectricSystem.update; elec_ret keeps the generator availability the
\* update computed, the charge its APU policy and its rat.update saw, and
\* the APU and RAT states it found
ElectricSystem_update(generator_on, demand, gen_fails) ==
    LET el2 == elec_policy_f(ElecRec, generator_on, demand, gen_fails, fdm_dt)
        el == elec_update_f(ElecRec, generator_on, demand, gen_fails, fdm_dt)
    IN  /\ apu_timer <= MaxApuTimer
        /\ op' = "electric_update"
        /\ SetElectric(el)
        /\ elec_ret' = [generator_available |->
                            generator_on /\ ~el.generator_failed,
                        charge_seen |-> el2.charge,
                        apu_before |-> apu_running,
                        rat_before |-> rat_deployed]
        /\ UNCHANGED <<fdm_dt, fdm_n1, starterVars, sysVars, abVars, fuelVars,
                       navVars, engVars, fireVars, brakeVars, cautionVars,
                       apVars, ctlVars, autoVars, tickVars,
                   callVars>>

\* ElectricSystem.start_apu, also reached through the overhead panel
ElectricSystem_start_apu ==
    /\ op' = "start_apu"
    /\ SetElectric(start_apu_f(ElecRec))
    /\ UNCHANGED <<elec_ret, fdm_dt, fdm_n1, starterVars, sysVars, abVars,
                   fuelVars, navVars, engVars, fireVars, brakeVars,
                   cautionVars, apVars, ctlVars, autoVars, tickVars,
                   callVars>>

\* ElectricSystem.stop_apu, also reached through the overhead panel
ElectricSystem_stop_apu ==
    /\ op' = "stop_apu"
    /\ SetElectric(stop_apu_f(ElecRec))
    /\ UNCHANGED <<elec_ret, fdm_dt, fdm_n1, starterVars, sysVars, abVars,
                   fuelVars, navVars, engVars, fireVars, brakeVars,
                   cautionVars, apVars, ctlVars, autoVars, tickVars,
                   callVars>>

\* ElectricSystem(rat=RamAirTurbine()); apu_running is set by EnvIdle
ElectricIdle ==
    /\ charge = 100
    /\ apu_timer = 0
    /\ generator_failed = FALSE
    /\ rat_deployed = FALSE
    /\ elec_ret = NoElecReturn
(***************************************************************************)
(* Autopilot: engagement, the four control loops and the flight control    *)
(* commands.  Altitudes are feet, vertical speeds thousandths of a foot    *)
(* per second, headings degrees, sideslip thousandths of a radian,         *)
(* commands millionths of full deflection, hydraulic pressure percent.     *)
(***************************************************************************)
AltKpFpm == 12              \* alt_pid = PIDController(0.002), times 60.0:
                            \* hundredths of a foot per minute per foot
VsKp == 5                   \* vs_pid = PIDController(0.005): millionths per
                            \* thousandth of a foot per second
HdgKp == 20000              \* hdg_pid = PIDController(0.02): millionths per
                            \* degree
YawKp == 100                \* yaw_pid = PIDController(0.1): millionths per
                            \* thousandth of a radian
PitchLimit == 500000        \* pitch_cmd within +-0.5
RollLimit == 300000         \* aileron_cmd and rudder_cmd within +-0.3
VsTargetLimit == 3000       \* vs_target_fpm within +-3000.0

MaxCtlUpdates == 2          \* Autopilot.update calls explored

PidNames == {"alt", "vs", "hdg", "yaw"}

\* what Autopilot.update reads from the FDM: altitude, vertical speed,
\* heading and sideslip
FlightConditions ==
    { [alt |-> 0, vs |-> 0, psi |-> 0, slip |-> 0],
      [alt |-> 100, vs |-> 40000, psi |-> 350, slip |-> 100],
      [alt |-> 1000, vs |-> -200000, psi |-> 10, slip |-> -100] }
Pressures == {50}           \* hydraulic pressure systems.update returned
VsArgs == {-600}            \* set_targets(vs=...)
ControlDts == {1, MaxDt}    \* time steps, seconds

\* PIDController.__init__
PidNew == [integral |-> 0, prev_error |-> 0]

\* PIDController.update, the state it leaves
pid_update_f(p, error, dt) ==
    [integral |-> p.integral + error * dt, prev_error |-> error]

\* PIDController.update, the value it returns when ki = kd = 0.0, as for
\* all four controllers of the Autopilot
pid_output_f(kp, error) == kp * error

NoCommands == [elevator |-> 0, aileron |-> 0, rudder |-> 0]

CtlRec == [engaged |-> engaged, vs_target_fpm |-> ap_vs_target, pid |-> pid,
           fcs_cmd |-> fcs_cmd]

\* Mutant of ap_controls_f: a disengaged autopilot resets its controllers.
ap_controls_reset(c, altitude, heading, fc, pressure, powered, dt) ==
    LET alt_error == altitude - fc.alt
        captured == ~(Abs(alt_error) > CaptureWindow)
        alt_pid == IF captured THEN pid_update_f(c.pid["alt"], alt_error, dt)
                   ELSE c.pid["alt"]
        stored == IF captured
                  THEN (pid_output_f(AltKpFpm, alt_error)) \div 100
                  ELSE c.vs_target_fpm
        vs_target == Clamp(stored, -VsTargetLimit, VsTargetLimit)
        vs_error == (vs_target * 50) \div 3 - fc.vs
        heading_error == ((heading - fc.psi + 180) % 360) - 180
        pitch_cmd == Clamp(pid_output_f(VsKp, vs_error),
                           -PitchLimit, PitchLimit)
        aileron_cmd == Clamp(pid_output_f(HdgKp, heading_error),
                             -RollLimit, RollLimit)
        rudder_cmd == Clamp(pid_output_f(YawKp, -fc.slip),
                            -RollLimit, RollLimit)
    IN  IF c.engaged
        THEN [c EXCEPT
                !.vs_target_fpm = stored,
                !.pid = [n \in PidNames |->
                           CASE n = "alt" -> alt_pid
                             [] n = "vs" -> pid_update_f(@[n], vs_error, dt)
                             [] n = "hdg" ->
                                    pid_update_f(@[n], heading_error, dt)
                             [] n = "yaw" -> pid_update_f(@[n], -fc.slip, dt)],
                !.fcs_cmd =
                    IF powered
                    THEN [elevator |-> (pitch_cmd * pressure) \div 100,
                          aileron |-> (aileron_cmd * pressure) \div 100,
                          rudder |-> (rudder_cmd * pressure) \div 100]
                    ELSE NoCommands]
        ELSE [c EXCEPT
                !.vs_target_fpm = stored,
                !.pid = [n \in PidNames |-> PidNew],
                !.fcs_cmd = IF powered THEN NoCommands ELSE @]

\* Autopilot.update, lines 1327-1368: c = [engaged, vs_target_fpm, pid,
\* fcs_cmd]; altitude and heading are the targets after the ILS and
\* navigation stage; fc is what was read from the FDM; pressure is what
\* systems.update returned; powered is electrics.is_powered()
ap_controls_f(c, altitude, heading, fc, pressure, powered, dt) ==
    LET alt_error == altitude - fc.alt
        captured == ~(Abs(alt_error) > CaptureWindow)
        alt_pid == IF captured THEN pid_update_f(c.pid["alt"], alt_error, dt)
                   ELSE c.pid["alt"]
        stored == IF captured
                  THEN (pid_output_f(AltKpFpm, alt_error)) \div 100
                  ELSE c.vs_target_fpm
        vs_target == Clamp(stored, -VsTargetLimit, VsTargetLimit)
        vs_error == (vs_target * 50) \div 3 - fc.vs
        heading_error == ((heading - fc.psi + 180) % 360) - 180
        pitch_cmd == Clamp(pid_output_f(VsKp, vs_error),
                           -PitchLimit, PitchLimit)
        aileron_cmd == Clamp(pid_output_f(HdgKp, heading_error),
                             -RollLimit, RollLimit)
        rudder_cmd == Clamp(pid_output_f(YawKp, -fc.slip),
                            -RollLimit, RollLimit)
    IN  IF c.engaged
        THEN [c EXCEPT
                !.vs_target_fpm = stored,
                !.pid = [n \in PidNames |->
                           CASE n = "alt" -> alt_pid
                             [] n = "vs" -> pid_update_f(@[n], vs_error, dt)
                             [] n = "hdg" ->
                                    pid_update_f(@[n], heading_error, dt)
                             [] n = "yaw" -> pid_update_f(@[n], -fc.slip, dt)],
                !.fcs_cmd =
                    IF powered
                    THEN [elevator |-> (pitch_cmd * pressure) \div 100,
                          aileron |-> (aileron_cmd * pressure) \div 100,
                          rudder |-> (rudder_cmd * pressure) \div 100]
                    ELSE NoCommands]
        ELSE [c EXCEPT
                !.vs_target_fpm = stored,
                !.pid = [@ EXCEPT !["alt"] = alt_pid],
                !.fcs_cmd = IF powered THEN NoCommands ELSE @]

\* --- operations -----------------------------------------------------------

notControls == <<envVars, starterVars, sysVars, abVars, fuelVars, navVars,
                 engVars, fireVars, brakeVars, cautionVars, apVars, elecVars,
                 autoVars, tickVars,
                   callVars>>

\* Autopilot.engage, also reached through AutopilotPanel.engage
Autopilot_engage ==
    /\ op' = "ap_engage"
    /\ engaged' = TRUE
    /\ UNCHANGED <<ap_vs_target, pid, fcs_cmd, pid_at_disengage, ctl_updates,
                   notControls>>

\* Autopilot.disengage, also reached through AutopilotPanel.disengage
Autopilot_disengage ==
    /\ op' = "ap_disengage"
    /\ engaged' = FALSE
    /\ pid_at_disengage' = IF engaged THEN pid ELSE pid_at_disengage
    /\ UNCHANGED <<ap_vs_target, pid, fcs_cmd, ctl_updates, notControls>>

\* Autopilot.set_targets(vs=...): with no altitude, heading or speed it
\* writes vs_target_fpm only
Autopilot_set_targets_vs(vs_arg) ==
    /\ op' = "ap_set_vs"
    /\ ap_vs_target' = vs_arg
    /\ UNCHANGED <<engaged, pid, fcs_cmd, pid_at_disengage, ctl_updates,
                   notControls>>

\* Autopilot.update with no ILS signal and no altitude at the active
\* waypoint, as far as it touches the targets, the vertical mode, the
\* navigation index, the control loops and the flight control commands
Autopilot_update_controls(fc, speed, pressure) ==
    LET idx == nav_update_f(nav_waypoints, nav_index, ac_lat)
        ap == ap_update_f(ApRec, fc.alt, speed, NoArg, 0, nav_waypoints,
                          idx, ac_lat, NoArg)
        c == ap_controls_f(CtlRec, ap.altitude, ap.heading, fc, pressure,
                           is_powered_f(ElecRec), fdm_dt)
    IN  /\ ctl_updates < MaxCtlUpdates
        /\ op' = "autopilot_controls"
        /\ ctl_updates' = ctl_updates + 1
        /\ nav_index' = idx
        /\ ap_heading' = ap.heading
        /\ ap_altitude' = ap.altitude
        /\ vertical_mode' = ap.vertical_mode
        /\ ap_args' = [ils |-> ap.ils, vnav |-> ap.vnav,
                       captured |-> ap.captured]
        /\ ap_vs_target' = c.vs_target_fpm
        /\ pid' = c.pid
        /\ fcs_cmd' = c.fcs_cmd
        /\ UNCHANGED <<engaged, pid_at_disengage, nav_waypoints, ac_lat,
                       envVars, starterVars, sysVars, abVars, fuelVars,
                       engVars, fireVars, brakeVars, cautionVars, elecVars,
                       autoVars, tickVars,
                   callVars>>

\* Autopilot(...) as constructed
ControlsIdle ==
    /\ engaged = TRUE
    /\ ap_vs_target = 0
    /\ pid = [n \in PidNames |-> PidNew]
    /\ fcs_cmd = NoCommands
    /\ pid_at_disengage = [n \in PidNames |-> PidNew]
    /\ ctl_updates = 0
(***************************************************************************)
(* Autopilot: system automation.  Surface targets are Quant-ths, speeds    *)
(* knots, altitudes feet, the brake command percent.                       *)
(***************************************************************************)
GearAltitudeFt == 1500      \* alt < 1500
GearSpeedKt == 180          \* speed < 180, also the flap 0.25 limit
FlapFullKt == 120           \* speed < 120: flap 1.0
Flap75Kt == 140             \* speed < 140: flap 0.75
Flap50Kt == 160             \* speed < 160: flap 0.5
SpeedbrakeFullKt == 320     \* speed > 320: speedbrake 1.0
SpeedbrakeStartKt == 280    \* speed > 280: (speed - 280) / 40.0
SpeedbrakeSpanKt == 40

\* what Autopilot.update reads: altitude, speed, on_ground (agl < 5.0)
AutoScenes ==
    { [alt |-> 1000, speed |-> 130, on_ground |-> FALSE],
      [alt |-> 0, speed |-> 25, on_ground |-> TRUE],
      [alt |-> 0, speed |-> ArmSpeedKt + 1, on_ground |-> TRUE] }
\* ... during a landing roll
LandingScenes ==
    AutoScenes
      \cup { [alt |-> 0, speed |-> ArmSpeedKt - DisarmSpeedKt,
              on_ground |-> TRUE] }
\* ... on approach and in cruise above the speedbrake schedule's start
ScheduleScenes ==
    { [alt |-> 1000, speed |-> 130, on_ground |-> FALSE],
      [alt |-> 3000, speed |-> 300, on_ground |-> FALSE] }
ScheduleDt == 1             \* Autopilot(dt=...), seconds
\* the autobrake levels the crew selects
CrewLevels == {"low", "med", "high"}
CrewTargets == {{0}, {Quant}}               \* FlightControlPanel settings
\* a time step in which the brakes heat up or cool down completely, seconds
AutomationDt == 100 \div BrakeCoolRatePct
CrewBrakeCommands == {10}                   \* BrakeSystem.set_command

Switches == [anti_ice |-> anti_ice_active, wing_ice |-> wing_ice_active,
             pitot_heat |-> pitot_heat]

\* Autopilot._manage_systems, lines 1227-1249: the gear, flap and
\* speedbrake commands it passes to systems.set_targets
manage_targets_f(alt, speed) ==
    [gear |-> IF alt < GearAltitudeFt /\ speed < GearSpeedKt THEN Quant
              ELSE 0,
     flap |-> IF speed < FlapFullKt THEN Quant
              ELSE IF speed < Flap75Kt THEN (75 * Quant) \div 100
              ELSE IF speed < Flap50Kt THEN (50 * Quant) \div 100
              ELSE IF speed < GearSpeedKt THEN (25 * Quant) \div 100
              ELSE 0,
     speedbrake |-> IF speed > SpeedbrakeFullKt THEN Quant
                    ELSE IF speed > SpeedbrakeStartKt
                    THEN ((speed - SpeedbrakeStartKt) * Quant)
                             \div SpeedbrakeSpanKt
                    ELSE 0]

\* Mutant of ap_systems_f: the automatic schedule runs whether or not
\* automation is enabled.
ap_systems_always(st, sc, throttle, icing, pump_power, pump_fails, dt) ==
    LET t == manage_targets_f(sc.alt, sc.speed)
        m1 == set_targets_f(st.sys, {t.gear}, {t.flap}, {t.speedbrake})
        a1 == manage_brakes_f(st.ab, sc.on_ground, sc.speed, throttle)
        sw1 == [anti_ice |-> icing, wing_ice |-> icing, pitot_heat |-> icing]
        m2 == systems_update_f(m1, dt, pump_power, sc.speed, pump_fails)
        b == brake_update_f([heat |-> st.heat, command |-> a1.command,
                             parking_brake |-> st.parking_brake],
                            sc.on_ground, dt)
    IN  [auto |-> st.auto,
         sys |-> [m2 EXCEPT !.targets_seen =
                     <<st.sys.target_gear, st.sys.target_flap,
                       st.sys.target_speedbrake>>],
         ab |-> [a1 EXCEPT !.command = b.command],
         heat |-> b.heat, parking_brake |-> st.parking_brake, sw |-> sw1,
         applied |-> b.applied,
         demand |-> Abs(m1.target_flap - m1.flap)
                    + Abs(m1.target_gear - m1.gear)
                    + Abs(m1.target_speedbrake - m1.speedbrake)]

\* Mutant of ap_systems_f: systems.update runs before _manage_systems.
ap_systems_moves_first(st, sc, throttle, icing, pump_power, pump_fails, dt) ==
    LET t == manage_targets_f(sc.alt, sc.speed)
        m1 == systems_update_f(st.sys, dt, pump_power, sc.speed, pump_fails)
        m2 == IF st.auto
              THEN set_targets_f(m1, {t.gear}, {t.flap}, {t.speedbrake})
              ELSE m1
        a1 == IF st.auto
              THEN manage_brakes_f(st.ab, sc.on_ground, sc.speed, throttle)
              ELSE st.ab
        sw1 == IF st.auto
               THEN [anti_ice |-> icing, wing_ice |-> icing,
                     pitot_heat |-> icing]
               ELSE st.sw
        b == brake_update_f([heat |-> st.heat, command |-> a1.command,
                             parking_brake |-> st.parking_brake],
                            sc.on_ground, dt)
    IN  [auto |-> st.auto,
         sys |-> [m2 EXCEPT !.targets_seen =
                     <<st.sys.target_gear, st.sys.target_flap,
                       st.sys.target_speedbrake>>],
         ab |-> [a1 EXCEPT !.command = b.command],
         heat |-> b.heat, parking_brake |-> st.parking_brake, sw |-> sw1,
         applied |-> b.applied,
         demand |-> Abs(st.sys.target_flap - st.sys.flap)
                    + Abs(st.sys.target_gear - st.sys.gear)
                    + Abs(st.sys.target_speedbrake - st.sys.speedbrake)]

\* Autopilot.update, lines 1318-1325: _manage_systems, systems.update and
\* brakes.update.  st = [auto, sys, ab (the autobrake with the brake
\* command), heat, parking_brake, sw (the three switches)]; sc is what was
\* read from the FDM; throttle is engine.throttle; icing is
\* environment.is_icing().  The result also carries what brakes.update
\* applied and the demand systems.update returned.
ap_systems_f(st, sc, throttle, icing, pump_power, pump_fails, dt) ==
    LET t == manage_targets_f(sc.alt, sc.speed)
        m1 == IF st.auto
              THEN set_targets_f(st.sys, {t.gear}, {t.flap}, {t.speedbrake})
              ELSE st.sys
        a1 == IF st.auto
              THEN manage_brakes_f(st.ab, sc.on_ground, sc.speed, throttle)
              ELSE st.ab
        sw1 == IF st.auto
               THEN [anti_ice |-> icing, wing_ice |-> icing,
                     pitot_heat |-> icing]
               ELSE st.sw
        m2 == systems_update_f(m1, dt, pump_power, sc.speed, pump_fails)
        b == brake_update_f([heat |-> st.heat, command |-> a1.command,
                             parking_brake |-> st.parking_brake],
                            sc.on_ground, dt)
    IN  [auto |-> st.auto,
         sys |-> [m2 EXCEPT !.targets_seen =
                     <<st.sys.target_gear, st.sys.target_flap,
                       st.sys.target_speedbrake>>],
         ab |-> [a1 EXCEPT !.command = b.command],
         heat |-> b.heat, parking_brake |-> st.parking_brake, sw |-> sw1,
         applied |-> b.applied,
         demand |-> Abs(m1.target_flap - m1.flap)
                    + Abs(m1.target_gear - m1.gear)
                    + Abs(m1.target_speedbrake - m1.speedbrake)]

AutoRec == [auto |-> auto_manage_systems, sys |-> sys, ab |-> AbRec,
            heat |-> brake_heat, parking_brake |-> parking_brake,
            sw |-> Switches]

\* the assignments of what ap_systems_f returned
SetSystems(st) ==
    /\ sys' = st.sys
    /\ ab_level' = st.ab.level
    /\ ab_active' = st.ab.active
    /\ brake_command' = st.ab.command
    /\ brake_heat' = st.heat
    /\ anti_ice_active' = st.sw.anti_ice
    /\ wing_ice_active' = st.sw.wing_ice
    /\ pitot_heat' = st.sw.pitot_heat

\* --- operations -----------------------------------------------------------

notSwitches == <<envVars, starterVars, sysVars, abVars, fuelVars, navVars,
                 engVars, fireVars, brakeVars, cautionVars, apVars, elecVars,
                 ctlVars, tickVars,
                   callVars>>

\* Autopilot.set_system_automation
Autopilot_set_system_automation(enabled) ==
    /\ op' = "set_system_automation"
    /\ auto_manage_systems' = enabled
    /\ UNCHANGED <<anti_ice_active, wing_ice_active, pitot_heat,
                   notSwitches>>

\* AntiIceSystem.set_active
AntiIceSystem_set_active(state) ==
    /\ op' = "anti_ice_set_active"
    /\ anti_ice_active' = state
    /\ UNCHANGED <<auto_manage_systems, wing_ice_active, pitot_heat,
                   notSwitches>>

\* WingIceSystem.set_active
WingIceSystem_set_active(state) ==
    /\ op' = "wing_ice_set_active"
    /\ wing_ice_active' = state
    /\ UNCHANGED <<auto_manage_systems, anti_ice_active, pitot_heat,
                   notSwitches>>

\* PitotSystem.set_heat
PitotSystem_set_heat(state) ==
    /\ op' = "pitot_set_heat"
    /\ pitot_heat' = state
    /\ UNCHANGED <<auto_manage_systems, anti_ice_active, wing_ice_active,
                   notSwitches>>

\* Autopilot.update, as far as it touches the surface targets and
\* positions, the hydraulics, the autobrake, the brakes and the three
\* switches.  The hydraulic pump has power and does not fail.
Autopilot_update_systems(sc, throttle, icing) ==
    LET st == ap_systems_f(AutoRec, sc, throttle, icing, TRUE, FALSE, fdm_dt)
    IN  /\ op' = "autopilot_systems"
        /\ SetSystems(st)
        /\ ab_args' = IF auto_manage_systems
                      THEN [on_ground |-> sc.on_ground, speed_kt |-> sc.speed,
                            throttle |-> throttle]
                      ELSE ab_args
        /\ brake_ret' = [on_ground |-> sc.on_ground, applied |-> st.applied]
        /\ UNCHANGED <<auto_manage_systems, parking_brake, envVars,
                       starterVars, fuelVars, navVars, engVars, fireVars,
                       cautionVars, apVars, elecVars, ctlVars, tickVars,
                   callVars>>

\* Autopilot(...) and PitotSystem(environment), AntiIceSystem(...),
\* WingIceSystem(...) as A320IFRSim constructs them
AutomationIdle ==
    /\ auto_manage_systems = TRUE
    /\ anti_ice_active = FALSE
    /\ wing_ice_active = FALSE
    /\ pitot_heat = TRUE
(***************************************************************************)
(* AntiIceSystem, WingIceSystem, PitotSystem and OxygenSystem.  Ice and    *)
(* clog are thousandths of 1.0, the bleed pressure and the oxygen level    *)
(* percent, times seconds.                                                 *)
(***************************************************************************)
IceFull == 1000             \* min(1.0, self.ice)
IceAccRate == 100           \* acc_rate = 0.1, per second
IceMeltRate == 50           \* melt_rate = 0.05, per second
ClogRate == 100             \* clog_rate = 0.1, per second
ClearRate == 50             \* clear_rate = 0.05, per second
IceFailLevel == 900         \* self.ice > 0.9
IcePenaltyPct == 30         \* efficiency = 1.0 - 0.3 * self.ice
AntiIceFuelPct == 5         \* extra_fuel_factor = 0.05
OxygenThresholdFt == 10000  \* alt_threshold = 10000.0
OxygenUsagePct == 1         \* usage_rate = 0.01, per second per 10000 ft

MaxIceRuns == 4             \* the accumulators are updated this often
IceDt == 5                  \* the time step of the icing runs, seconds
CabinAltitudes == {8000, 30000, 60000}  \* cabin_alt arguments, feet

\* AntiIceSystem(...), WingIceSystem(...), PitotSystem(environment): the
\* accumulators, and the extra_fuel_factor the AntiIceSystem writes
IceConstructed == [engine |-> 0, wing |-> 0, pitot |-> 0, extra_fuel |-> 0]
\* history: what the latest update of an accumulator saw, and how many
\* such updates there were
NoIceReturn == [icing |-> FALSE, pressure |-> 0, runs |-> 0]

\* Mutant of ice_update_f: the melt rate is not scaled by the bleed
\* pressure.
ice_update_unscaled(v, icing, active, pressure, dt) ==
    IF icing /\ ~active
    THEN Clamp(v + IceAccRate * dt, 0, IceFull)
    ELSE Clamp(v - IceMeltRate * dt, 0, IceFull)

\* AntiIceSystem.update, lines 784-791, and WingIceSystem.update, lines
\* 820-827, which are the same statements: the new ice; bleed is not None
\* in either object
ice_update_f(v, icing, active, pressure, dt) ==
    IF icing /\ ~active
    THEN Clamp(v + IceAccRate * dt, 0, IceFull)
    ELSE LET melt == IF active THEN (IceMeltRate * pressure) \div 100
                     ELSE IceMeltRate
         IN  Clamp(v - melt * dt, 0, IceFull)

\* PitotSystem.update: the new clog
pitot_update_f(v, icing, heat_on, dt) ==
    IF icing /\ ~heat_on
    THEN Clamp(v + ClogRate * dt, 0, IceFull)
    ELSE Clamp(v - ClearRate * dt, 0, IceFull)

\* OxygenSystem.update: the new level
oxygen_update_f(level, cabin_alt, dt) ==
    LET used == IF cabin_alt > OxygenThresholdFt
                THEN (OxygenUsagePct * (cabin_alt - OxygenThresholdFt) * dt)
                         \div 10000
                ELSE 0
    IN  Clamp(level - used, 0, 100)

\* Mutant of ap_ice_f: the automation leaves the three switches alone.
ap_ice_no_switching(st, icing, pressure, dt) ==
    LET p1 == pitot_update_f(st.ice.pitot, icing, st.sw.pitot_heat, dt)
        sw1 == st.sw
        e1 == ice_update_f(st.ice.engine, icing, sw1.anti_ice, pressure, dt)
        w1 == ice_update_f(st.ice.wing, icing, sw1.wing_ice, pressure, dt)
    IN  [sw |-> sw1,
         ice |-> [engine |-> e1, wing |-> w1, pitot |-> p1,
                  extra_fuel |-> IF sw1.anti_ice THEN AntiIceFuelPct ELSE 0]]

\* Autopilot.update as far as the accumulators go, in source order:
\* pitot.update (line 1275), _manage_systems with the three switches
\* (lines 1264-1270), anti_ice.update (line 1371), wing_ice.update (line
\* 1375).  st = [auto, sw, ice]; pressure is bleed.pressure, which
\* step() updates after Autopilot.update.
ap_ice_f(st, icing, pressure, dt) ==
    LET p1 == pitot_update_f(st.ice.pitot, icing, st.sw.pitot_heat, dt)
        sw1 == IF st.auto
               THEN [anti_ice |-> icing, wing_ice |-> icing,
                     pitot_heat |-> icing]
               ELSE st.sw
        e1 == ice_update_f(st.ice.engine, icing, sw1.anti_ice, pressure, dt)
        w1 == ice_update_f(st.ice.wing, icing, sw1.wing_ice, pressure, dt)
    IN  [sw |-> sw1,
         ice |-> [engine |-> e1, wing |-> w1, pitot |-> p1,
                  extra_fuel |-> IF sw1.anti_ice THEN AntiIceFuelPct ELSE 0]]

\* AntiIceSystem.update, lines 792-795, on the engines: the efficiency it
\* writes to every engine, and engine.fail() on every engine when the draw
\* random.random() < failure_chance * dt succeeds above the fail level
SetIcedEngines(engine_ice, fails) ==
    LET hit == fails /\ engine_ice > IceFailLevel
    IN  /\ eng' = [i \in Engines |->
                      [eng[i] EXCEPT !.efficiency =
                          100 - (IcePenaltyPct * engine_ice) \div IceFull]]
        /\ failed' = [i \in Engines |-> failed[i] \/ hit]
        /\ set_running' = [i \in Engines |->
                              IF hit THEN 0 ELSE set_running[i]]

\* what the operations of the accumulators leave alone
notIce == <<starter_state, starter_timer, bleed_pressure, restart_clock,
            envVars, sysVars, abVars, fuelVars, navVars, fireVars,
            brakeVars, cautionVars, apVars, elecVars, ctlVars, time_s,
            step_log, tick_ret, at_engaged, at_target, at_ret, callVars>>
engineIceVars == <<throttle_cmd, eng_draws, fire_age, failed_time>>

\* --- operations -----------------------------------------------------------

\* AntiIceSystem.update(dt); icing is environment.is_icing()
AntiIceSystem_update(icing, fails) ==
    LET v == ice_update_f(ice.engine, icing, anti_ice_active,
                          bleed_pressure, fdm_dt)
    IN  /\ ice_ret.runs < MaxIceRuns
        /\ op' = "anti_ice_update"
        /\ ice' = [ice EXCEPT !.engine = v,
                       !.extra_fuel = IF anti_ice_active
                                      THEN AntiIceFuelPct ELSE 0]
        /\ SetIcedEngines(v, fails)
        /\ ice_ret' = [icing |-> icing, pressure |-> bleed_pressure,
                       runs |-> ice_ret.runs + 1]
        /\ UNCHANGED <<engineIceVars, autoVars, oxygen_level, notIce>>

\* WingIceSystem.update(dt)
WingIceSystem_update(icing) ==
    /\ ice_ret.runs < MaxIceRuns
    /\ op' = "wing_ice_update"
    /\ ice' = [ice EXCEPT !.wing = ice_update_f(ice.wing, icing,
                              wing_ice_active, bleed_pressure, fdm_dt)]
    /\ ice_ret' = [icing |-> icing, pressure |-> bleed_pressure,
                       runs |-> ice_ret.runs + 1]
    /\ UNCHANGED <<eng, failed, set_running, engineIceVars, autoVars,
                   oxygen_level, notIce>>

\* PitotSystem.update(dt)
PitotSystem_update(icing) ==
    /\ ice_ret.runs < MaxIceRuns
    /\ op' = "pitot_update"
    /\ ice' = [ice EXCEPT !.pitot = pitot_update_f(ice.pitot, icing,
                                                   pitot_heat, fdm_dt)]
    /\ ice_ret' = [icing |-> icing, pressure |-> bleed_pressure,
                       runs |-> ice_ret.runs + 1]
    /\ UNCHANGED <<eng, failed, set_running, engineIceVars, autoVars,
                   oxygen_level, notIce>>

\* Autopilot.update as far as it touches the three switches and the three
\* accumulators; no engine failure is drawn
Autopilot_update_ice(icing) ==
    LET st == ap_ice_f([auto |-> auto_manage_systems, sw |-> Switches,
                        ice |-> ice], icing, bleed_pressure, fdm_dt)
    IN  /\ ice_ret.runs < MaxIceRuns
        /\ op' = "autopilot_ice"
        /\ anti_ice_active' = st.sw.anti_ice
        /\ wing_ice_active' = st.sw.wing_ice
        /\ pitot_heat' = st.sw.pitot_heat
        /\ ice' = st.ice
        /\ SetIcedEngines(st.ice.engine, FALSE)
        /\ ice_ret' = [icing |-> icing, pressure |-> bleed_pressure,
                       runs |-> ice_ret.runs + 1]
        /\ UNCHANGED <<engineIceVars, auto_manage_systems, oxygen_level,
                       notIce>>

\* OxygenSystem.update(cabin_alt, dt)
OxygenSystem_update(cabin_alt) ==
    /\ op' = "oxygen_update"
    /\ oxygen_level' = oxygen_update_f(oxygen_level, cabin_alt, fdm_dt)
    /\ UNCHANGED <<eng, failed, set_running, engineIceVars, autoVars,
                   iceVars, notIce>>

\* the three accumulators and OxygenSystem() as constructed
IceIdle ==
    /\ ice = IceConstructed
    /\ ice_ret = NoIceReturn
    /\ oxygen_level = 100
(***************************************************************************)
(* A320IFRSim.step as a whole: the order of the update calls it makes, the *)
(* operations on its path that can raise, and its effect on the starter,   *)
(* the engines, the systems, the brakes, the electrics, the fuel, the      *)
(* route and the fire bottles.  Speeds are knots, the throttle percent.    *)
(***************************************************************************)
PumpN1Pct == 20             \* self.engine.n1() > 0.2
GeneratorN1Pct == 50        \* n1_avg > 0.5
BaseDemandPct == 10         \* hyd_demand + 0.1
ThrottlePctPerKt == 1       \* Autothrottle kp = 0.01: percent per knot
InitTargetSpeed == 250      \* self.target_speed = 250

MaxTime == 3                \* step() is explored this often
TickDt == 1                 \* A320IFRSim(dt=...), seconds
TickFuel == 100             \* what each tank holds at first, pounds
TickRoute == <<3>>          \* a route of one waypoint
TickCharges == {0, 100}     \* the battery flat or full, percent

\* what Autopilot.update reads from the FDM, and the cabin altitude that
\* pressurization.update returns
TickScenes ==
    { [alt |-> 1000, speed |-> 130, on_ground |-> FALSE, cabin_alt |-> 1000],
      [alt |-> 5000, speed |-> GearOverspeedKt + 10, on_ground |-> FALSE,
       cabin_alt |-> 5000] }
\* what happens to the engines in one step: F are the engines whose random
\* failure draw succeeds, G those whose ignition draw succeeds, burn is the
\* fuel fdm.run() takes from each tank, n1next the n1 it leaves
TickEvents ==
    { [F |-> {}, G |-> {}, burn |-> 0, n1next |-> 60],
      [F |-> Engines, G |-> Engines, burn |-> TickFuel, n1next |-> 0] }

\* --- the update calls, in the order the code makes them -------------------

\* Autopilot._manage_systems, lines 1222-1256: with automation off it
\* returns at once; with automation on it calls autobrake.update
manage_calls_f(auto) ==
    <<"Autopilot._manage_systems">>
        \o (IF ~auto THEN <<>> ELSE <<"AutobrakeSystem">>)

\* Mutant of autothrottle_calls_f: without power the engines are not
\* updated.
autothrottle_calls_skip(engaged_, powered) ==
    <<"Autothrottle">>
        \o (IF ~powered THEN <<>>
            ELSE IF ~engaged_ THEN <<"EngineSystem">>
            ELSE <<"EngineSystem">>)

\* Autothrottle.update, lines 249-265: engine.update is called in the
\* early return and at the end
autothrottle_calls_f(engaged_, powered) ==
    <<"Autothrottle">>
        \o (IF ~engaged_ \/ ~powered THEN <<"EngineSystem">>
            ELSE <<"EngineSystem">>)

\* Mutant of autopilot_calls_f: the autothrottle and the engines are
\* updated before the systems.
autopilot_calls_engines_first(auto, engaged_, powered) ==
    <<"Autopilot", "PitotSystem", "ILSSystem", "NavigationSystem">>
        \o manage_calls_f(auto)
        \o autothrottle_calls_f(engaged_, powered)
        \o <<"SystemManager", "HydraulicSystem", "BrakeSystem">>
        \o <<"AntiIceSystem", "WingIceSystem">>

\* Autopilot.update, lines 1272-1375, of the Autopilot A320IFRSim builds
\* (pitot, ils, nav, brakes, autobrake and wing_ice are all given)
autopilot_calls_f(auto, engaged_, powered) ==
    <<"Autopilot", "PitotSystem", "ILSSystem", "NavigationSystem">>
        \o manage_calls_f(auto)
        \o <<"SystemManager", "HydraulicSystem", "BrakeSystem">>
        \o autothrottle_calls_f(engaged_, powered)
        \o <<"AntiIceSystem", "WingIceSystem">>

\* A320IFRSim.step, lines 1501-1568
step_calls_f(auto, engaged_, powered) ==
    <<"Environment", "EngineStartSystem">>
        \o autopilot_calls_f(auto, engaged_, powered)
        \o <<"ElectricSystem", "RamAirTurbine", "PressurizationSystem",
             "BleedAirSystem", "CabinTemperatureSystem", "FuelSystem",
             "OxygenSystem", "FireSuppressionSystem", "StallWarningSystem",
             "GroundProximityWarningSystem", "OverspeedWarningSystem",
             "WeatherRadarSystem", "TCASSystem", "MasterCautionSystem",
             "FDM">>

\* --- the operations on the path of step() that can raise ------------------

\* NavigationSystem.update, lines 1067-1071: self.waypoints[self.index] is
\* read only past the test for an empty route and an index beyond it
nav_raises_f(wps, idx) ==
    IF Len(wps) = 0 \/ idx >= Len(wps) THEN "none"
    ELSE IF idx + Len(wps) < 0 THEN "IndexError"
    ELSE "none"

\* Mutant of step_raises_f: FireSuppressionSystem.update indexes the engines
\* with active_engine without testing it for None.
step_raises_unguarded_fire(wps, idx, n_engines, dt, active_engine) ==
    IF nav_raises_f(wps, idx) # "none" THEN nav_raises_f(wps, idx)
    ELSE IF n_engines = 0 THEN "ZeroDivisionError"
    ELSE IF dt = 0 THEN "ZeroDivisionError"
    ELSE IF active_engine = NoEngine THEN "TypeError"
    ELSE IF \E i \in active_engine : i >= n_engines THEN "IndexError"
    ELSE "none"

\* step(), in source order: nav.update; sum(n1_list) / len(n1_list);
\* FuelSystem.update, which divides by dt; FireSuppressionSystem.update,
\* which indexes the engines with active_engine.  The result is the
\* exception step() ends with, "none" when it returns its dict.
step_raises_f(wps, idx, n_engines, dt, active_engine) ==
    IF nav_raises_f(wps, idx) # "none" THEN nav_raises_f(wps, idx)
    ELSE IF n_engines = 0 THEN "ZeroDivisionError"
    ELSE IF dt = 0 THEN "ZeroDivisionError"
    ELSE IF \E i \in active_engine : i >= n_engines THEN "IndexError"
    ELSE "none"

\* --- the Autothrottle -----------------------------------------------------

\* Mutant of autothrottle_target_f: without power the autothrottle still
\* commands the engines.
autothrottle_target_unpowered(engaged_, powered, target_speed, speed) ==
    IF ~engaged_ THEN NoArg
    ELSE {Clamp(ThrottlePctPerKt * (target_speed - speed), 0, 100)}

\* Autothrottle.update, lines 249-265, before it calls engine.update: the
\* target it gives every engine, or none
autothrottle_target_f(engaged_, powered, target_speed, speed) ==
    IF ~engaged_ \/ ~powered THEN NoArg
    ELSE {Clamp(ThrottlePctPerKt * (target_speed - speed), 0, 100)}

\* EngineSystem.throttle: the mean of the engines' throttles
engines_throttle_f(e) ==
    (e[0].throttle + e[1].throttle) \div NumEngines

NoThrottleReturn == [powered |-> TRUE, speed |-> 0, throttle |-> 0, runs |-> 0]

NoTickReturn ==
    [raised |-> "none", returned |-> FALSE, powered |-> TRUE,
     pump_power |-> FALSE, pump_n1 |-> 0, failed |-> {}, fuel_lbs |-> 0,
     hyd_press |-> Quant, fire_bottles |-> FsBottles,
     flap_operable |-> TRUE, gear_operable |-> TRUE]

\* --- operations -----------------------------------------------------------

\* A320IFRSim.step.  sc is what Autopilot.update reads from the FDM, icing
\* is environment.is_icing(), ev the random draws of the engines and what
\* fdm.run() does.  In source order: starter.update and the re-request;
\* autopilot.update with _manage_systems, systems.update (its pump power
\* from the n1 the FDM reports now), brakes.update, autothrottle.update and
\* the engines' update; electrics.update (its generator from the same n1);
\* pressurization.update with bleed.update; fuel.update;
\* oxygen.update; fire_suppr.update; fdm.run().  The pitot tube is updated
\* at the start of autopilot.update, the engine and wing ice at its end,
\* with the bleed pressure of the step before.  The guidance, the control
\* loops and the warnings have their own operations; no generator,
\* hydraulic pump or oil pump failure and no failure from engine ice is
\* drawn.  tick_ret keeps
\* what the step found (powered, failed, fuel_lbs, hyd_press, fire_bottles,
\* flap_operable, gear_operable), the pump power it computed from pump_n1,
\* and how it ended.
A320IFRSim_step_all(sc, icing, ev) ==
    LET dt == fdm_dt
        s1 == starter_update_f(StarterRec, bleed_pressure, dt)
        rerequest == AnyFailed(s1.failed) /\ s1.state = "running"
        s2 == IF rerequest THEN request_start_f(s1) ELSE s1
        pump_power == fdm_n1 > PumpN1Pct \/ apu_running
        st == ap_systems_f(AutoRec, sc, engines_throttle_f(eng), icing,
                           pump_power, FALSE, dt)
        powered == is_powered_f(ElecRec)
        ic == ap_ice_f([auto |-> auto_manage_systems, sw |-> Switches,
                        ice |-> ice], icing, bleed_pressure, dt)
        tgt == autothrottle_target_f(at_engaged, powered, at_target, sc.speed)
        e_in(i) ==
            LET e == [EngineRec(i) EXCEPT !.failed = s2.failed[i],
                                          !.run = s2.run[i]]
            IN  IF tgt = NoArg THEN e
                ELSE engine_set_target_f(e, ArgValue(tgt))
        e_out0 == engine_update_f(e_in(0), dt, 0 \in ev.F, FALSE, 0 \in ev.G)
        e_out1 == engine_update_f(e_in(1), dt, 1 \in ev.F, FALSE, 1 \in ev.G)
        e_out == (0 :> e_out0) @@ (1 :> e_out1)
        newly == {i \in Engines : e_out[i].failed /\ ~s2.failed[i]}
        el2 == elec_policy_f(ElecRec, fdm_n1 > GeneratorN1Pct,
                             (st.demand * 100) \div Quant + BaseDemandPct,
                             FALSE, dt)
        el == elec_update_f(ElecRec, fdm_n1 > GeneratorN1Pct,
                            (st.demand * 100) \div Quant + BaseDemandPct,
                            FALSE, dt)
        fu == fuel_update_f(tank_left, tank_right, crossfeed_on,
                            el.apu_running, dt)
        fr == fire_update_f(FsRec, [i \in Engines |-> e_out[i].fire], dt)
        e_end0 == IF 0 \in fr.cleared THEN engine_extinguish_fire_f(e_out0)
                  ELSE e_out0
        e_end1 == IF 1 \in fr.cleared THEN engine_extinguish_fire_f(e_out1)
                  ELSE e_out1
        e_end == (0 :> e_end0) @@ (1 :> e_end1)
        c1 == IF restart_clock >= 0 /\ bleed_pressure > StartBleedThreshold
              THEN Min(restart_clock + dt, StartTime)
              ELSE restart_clock
        c2 == IF rerequest /\ c1 = -1 THEN 0 ELSE c1
        q0 == QueueAfter(fire_queue, 0, eng[0].fire, e_out[0].fire)
        q1 == QueueAfter(q0, 1, eng[1].fire, e_out[1].fire)
    IN  /\ time_s < MaxTime * dt
        /\ op' = "tick"
        /\ time_s' = time_s + dt
        \* the starter and the engines
        /\ starter_state' = s2.state
        /\ starter_timer' = s2.timer
        /\ failed' = [i \in Engines |-> e_end[i].failed]
        /\ set_running' = [i \in Engines |-> e_end[i].run]
        /\ restart_clock' = IF newly # {} THEN -1 ELSE c2
        /\ eng' = [i \in Engines |->
                      [EngineState(e_end[i]) EXCEPT !.efficiency =
                          100 - (IcePenaltyPct * ic.ice.engine) \div IceFull]]
        /\ throttle_cmd' = [i \in Engines |-> e_end[i].cmd]
        /\ eng_draws' = {i \in ev.F : ~s2.failed[i]}
        /\ fire_age' = [i \in Engines |->
                           IF i \in fr.cleared THEN 0
                           ELSE FireAgeAfter(i, e_out[i].fire, dt)]
        /\ failed_time' = [i \in Engines |-> FailedTimeAfter(i, dt)]
        \* _manage_systems, systems.update, brakes.update
        /\ SetSystems(st)
        /\ ab_args' = IF auto_manage_systems
                      THEN [on_ground |-> sc.on_ground, speed_kt |-> sc.speed,
                            throttle |-> engines_throttle_f(eng)]
                      ELSE ab_args
        /\ brake_ret' = [on_ground |-> sc.on_ground, applied |-> st.applied]
        \* nav.update
        /\ nav_index' = nav_update_f(nav_waypoints, nav_index, ac_lat)
        \* electrics.update and bleed.update
        /\ SetElectric(el)
        /\ elec_ret' = [generator_available |->
                            fdm_n1 > GeneratorN1Pct /\ ~el.generator_failed,
                        charge_seen |-> el2.charge,
                        apu_before |-> apu_running,
                        rat_before |-> rat_deployed]
        /\ bleed_pressure' = BleedAirSystem_pressure(fdm_n1, el.apu_running)
        \* fuel.update, and what fdm.run() burns
        /\ tank_left' = Max(fu.left - ev.burn, 0)
        /\ tank_right' = Max(fu.right - ev.burn, 0)
        /\ crossfeed_on' = fu.crossfeed_on
        /\ fuel_ret' = [kind |-> "fuel", left_lbs |-> fu.left,
                        right_lbs |-> fu.right,
                        total_lbs |-> fu.left + fu.right,
                        apu_flow_pph |-> fu.apu_flow_pph,
                        crossfeed |-> fu.crossfeed_on,
                        after_transfer |-> fu.after_transfer,
                        entry_crossfeed |-> crossfeed_on,
                        overridden |-> op = "set_crossfeed"]
        \* pitot.update, anti_ice.update, wing_ice.update, oxygen.update
        /\ ice' = ic.ice
        /\ ice_ret' = [icing |-> icing, pressure |-> bleed_pressure,
                       runs |-> ice_ret.runs + 1]
        /\ oxygen_level' = oxygen_update_f(oxygen_level, sc.cabin_alt, dt)
        \* fire_suppr.update
        /\ fs_bottles' = fr.bottles
        /\ fs_timer' = fr.timer
        /\ fs_active_engine' = fr.active_engine
        /\ fs_ret' = [started |-> fr.started, cleared |-> fr.cleared,
                      fire |-> \E i \in Engines : e_end[i].fire]
        /\ fire_queue' = IF fr.cleared = NoEngine THEN q1
                         ELSE QueueWithout(q1, CHOOSE i \in fr.cleared : TRUE)
        \* fdm.run()
        /\ fdm_n1' = ev.n1next
        /\ at_ret' = [powered |-> powered, speed |-> sc.speed,
                      throttle |-> engines_throttle_f(e_out),
                      runs |-> at_ret.runs + 1]
        /\ step_log' = step_calls_f(auto_manage_systems, at_engaged, powered)
        /\ tick_ret' =
             [raised |-> step_raises_f(nav_waypoints, nav_index, NumEngines,
                                       dt, fs_active_engine),
              returned |-> step_raises_f(nav_waypoints, nav_index, NumEngines,
                                         dt, fs_active_engine) = "none",
              powered |-> powered,
              pump_power |-> pump_power, pump_n1 |-> fdm_n1,
              failed |-> {i \in Engines : failed[i]},
              fuel_lbs |-> tank_left + tank_right,
              hyd_press |-> sys.pressure, fire_bottles |-> fs_bottles,
              flap_operable |-> sys.flap_operable,
              gear_operable |-> sys.gear_operable]
        /\ UNCHANGED <<fdm_dt, auto_manage_systems, parking_brake,
                       nav_waypoints, ac_lat, at_engaged, at_target,
                       cautionVars, apVars, ctlVars, callVars>>

\* A320IFRSim.__init__ before init_conditions(); the Autothrottle as
\* Autopilot.__init__ builds it
TickIdle ==
    /\ time_s = 0
    /\ step_log = <<>>
    /\ tick_ret = NoTickReturn
    /\ at_engaged = TRUE
    /\ at_target = 0
    /\ at_ret = NoThrottleReturn
    /\ IceIdle
(***************************************************************************)
(* Autothrottle.  Speeds are knots, the throttle percent.                  *)
(***************************************************************************)
MaxThrottleRuns == 3         \* Autothrottle.update is explored this often
ThrottleDt == 1             \* the time step of the autothrottle runs, seconds
\* what pitot.indicated_speed(fdm) returns: the command for the target of
\* 250 kt is above 1.0, inside [0, 1] and below 0
IndicatedSpeeds == {130, 220, 300}

\* what the autothrottle's operations leave alone
notThrottle == <<starter_state, starter_timer, bleed_pressure, restart_clock,
                 envVars, sysVars, abVars, fuelVars, navVars, fs_bottles,
                 fs_timer, fs_active_engine, fs_ret, brakeVars, cautionVars,
                 apVars, elecVars, ctlVars, autoVars, time_s, step_log,
                 tick_ret, iceVars, oxygen_level, callVars>>

\* Autothrottle.engage
Autothrottle_engage ==
    /\ op' = "autothrottle_engage"
    /\ at_engaged' = TRUE
    /\ UNCHANGED <<at_target, at_ret, engVars, failed, set_running,
                   fire_queue, notThrottle>>

\* Autothrottle.disengage
Autothrottle_disengage ==
    /\ op' = "autothrottle_disengage"
    /\ at_engaged' = FALSE
    /\ UNCHANGED <<at_target, at_ret, engVars, failed, set_running,
                   fire_queue, notThrottle>>

\* Autothrottle.set_target
Autothrottle_set_target(speed_kt) ==
    /\ op' = "autothrottle_set_target"
    /\ at_target' = speed_kt
    /\ UNCHANGED <<at_engaged, at_ret, engVars, failed, set_running,
                   fire_queue, notThrottle>>

\* Autothrottle.update(dt, powered), lines 249-265, with the
\* EngineSystem.update it ends with in either branch; speed is what
\* pitot.indicated_speed(fdm) returns.  The PID has ki = kd = 0: its output
\* is kp times the error.  at_ret.runs counts the calls.  No random failure, ignition or oil pump failure
\* is drawn.
Autothrottle_update(powered, speed) ==
    LET tgt == autothrottle_target_f(at_engaged, powered, at_target, speed)
        e_in(i) == IF tgt = NoArg THEN EngineRec(i)
                   ELSE engine_set_target_f(EngineRec(i), ArgValue(tgt))
        e == [i \in Engines |->
                 engine_update_f(e_in(i), fdm_dt, FALSE, FALSE, FALSE)]
        q0 == QueueAfter(fire_queue, 0, eng[0].fire, e[0].fire)
    IN  /\ at_ret.runs < MaxThrottleRuns
        /\ \A i \in Engines : EngineBounded(EngineRec(i))
        /\ op' = "autothrottle_update"
        /\ eng' = [i \in Engines |-> EngineState(e[i])]
        /\ failed' = [i \in Engines |-> e[i].failed]
        /\ set_running' = [i \in Engines |-> e[i].run]
        /\ throttle_cmd' = [i \in Engines |-> e[i].cmd]
        /\ eng_draws' = {}
        /\ fire_age' = [i \in Engines |-> FireAgeAfter(i, e[i].fire, fdm_dt)]
        /\ failed_time' = [i \in Engines |-> FailedTimeAfter(i, fdm_dt)]
        /\ fire_queue' = QueueAfter(q0, 1, eng[1].fire, e[1].fire)
        /\ at_ret' = [powered |-> powered, speed |-> speed,
                      throttle |-> engines_throttle_f(e),
                      runs |-> at_ret.runs + 1]
        /\ UNCHANGED <<at_engaged, at_target, notThrottle>>

(***************************************************************************)
(* The objects of the flight deck as constructed                           *)
(***************************************************************************)
\* no call that can reject its argument has been made
CallIdle == call_ret = [call |-> "none", arg |-> {}, signal |-> "none"]

CockpitIdle ==
    /\ BrakeIdle
    /\ CautionIdle
    /\ AutopilotIdle
    /\ ElectricIdle
    /\ ControlsIdle
    /\ AutomationIdle
    /\ TickIdle
    /\ CallIdle
(***************************************************************************)
(* Specifications                                                          *)
(***************************************************************************)
\* --- the starter as a unit: EngineStartSystem(fdm, bleed, engines) ---------
InitStarter ==
    /\ op = "init"
    /\ EngineIdle
    /\ FireIdle
    /\ CockpitIdle
    /\ fdm_dt \in StarterDts
    /\ fdm_n1 = 0
    /\ starter_state = "stopped"
    /\ starter_timer = 0
    /\ failed = [i \in Engines |-> FALSE]
    /\ set_running = [i \in Engines |-> 0]
    /\ bleed_pressure = 0
    /\ apu_running = FALSE
    /\ restart_clock = -1
    /\ SysIdle
    /\ AutobrakeIdle
    /\ FuelIdle
    /\ NavIdle

NextStarter ==
    \/ EngineStartSystem_request_start
    \/ \E dt \in StarterDts : EngineStartSystem_update(dt)
    \/ \E i \in Engines : Engine_fail(i)
    \/ \E n1 \in N1Values : BleedAirSystem_update(n1)
    \/ \E on \in BOOLEAN : ElectricSystem_set_apu(on)

SpecStarter == InitStarter /\ [][NextStarter]_vars


\* A320IFRSim.__init__ with init_conditions(): set-running 0 on both engines,
\* electrics.start_apu(), starter.request_start().
InitSim ==
    /\ op = "init"
    /\ EngineIdle
    /\ FireIdle
    /\ CockpitIdle
    /\ fdm_dt \in StarterDts
    /\ fdm_n1 = 0
    /\ starter_state = "starting"
    /\ starter_timer = 0
    /\ failed = [i \in Engines |-> FALSE]
    /\ set_running = [i \in Engines |-> 0]
    /\ bleed_pressure = 0
    /\ apu_running = TRUE
    /\ restart_clock = -1
    /\ SysIdle
    /\ AutobrakeIdle
    /\ FuelIdle
    /\ NavIdle

NextSim ==
    \/ \E F \in SUBSET Engines, apu \in BOOLEAN, n1next \in N1Values :
           A320IFRSim_step(F, apu, n1next)
    \/ EngineStartSystem_request_start
    \/ \E i \in Engines : Engine_fail(i)
    \/ \E on \in BOOLEAN : ElectricSystem_set_apu(on)

SpecSim == InitSim /\ [][NextSim]_vars


\* --- SystemManager(fdm) as a unit --------------------------------------------
InitSys ==
    /\ op = "init"
    /\ EngineIdle
    /\ FireIdle
    /\ CockpitIdle
    /\ EnvIdle
    /\ StarterIdle
    /\ SysIdle
    /\ AutobrakeIdle
    /\ FuelIdle
    /\ NavIdle
    /\ AutobrakeIdle
    /\ FuelIdle
    /\ NavIdle

NextSys ==
    \/ \E g, f, b \in OptionalTargets :
           SystemManager_set_targets(g, f, b)
    \/ \E dt \in SysDts, pump_power \in BOOLEAN, speed_kt \in SysSpeeds,
          pump_fails \in BOOLEAN :
           SystemManager_update(dt, pump_power, speed_kt, pump_fails)

SpecSys == InitSys /\ [][NextSys]_vars

\* --- AutobrakeSystem(brakes) as a unit ---------------------------------------
InitAutobrake ==
    /\ op = "init"
    /\ EngineIdle
    /\ FireIdle
    /\ CockpitIdle
    /\ EnvIdle
    /\ StarterIdle
    /\ SysIdle
    /\ AutobrakeIdle
    /\ FuelIdle
    /\ NavIdle

NextAutobrake ==
    \/ \E level \in LevelInputs : AutobrakeSystem_set_level(level)
    \/ \E on_ground \in BOOLEAN, speed_kt \in AbSpeeds, throttle \in AbThrottles :
           AutobrakeSystem_update(on_ground, speed_kt, throttle)

SpecAutobrake == InitAutobrake /\ [][NextAutobrake]_vars

\* --- FuelSystem(fdm, engine, electrics) as a unit: any tank contents on the
\* grid, either time step, APU stopped or running ------------------------------
InitFuel ==
    /\ op = "init"
    /\ EngineIdle
    /\ FireIdle
    /\ CockpitIdle
    /\ fdm_dt \in FuelDts
    /\ fdm_n1 = 0
    /\ apu_running = FALSE
    /\ StarterIdle
    /\ SysIdle
    /\ AutobrakeIdle
    /\ tank_left \in FuelGrid
    /\ tank_right \in FuelGrid
    /\ crossfeed_on = FALSE
    /\ fuel_ret = NoReturn
    /\ NavIdle

NextFuel ==
    \/ FuelSystem_update
    \/ \E on \in BOOLEAN : FuelPanel_set_crossfeed(on)
    \/ \E on \in BOOLEAN : ElectricSystem_set_apu(on)
    \/ \E bl, br \in BurnLbs : FDM_burn(bl, br)

SpecFuel == InitFuel /\ [][NextFuel]_vars

\* --- NavigationSystem(fdm) with the FMS and the MCDU in front of it -----------
InitNav ==
    /\ op = "init"
    /\ EngineIdle
    /\ FireIdle
    /\ CockpitIdle
    /\ EnvIdle
    /\ StarterIdle
    /\ SysIdle
    /\ AutobrakeIdle
    /\ FuelIdle
    /\ nav_waypoints \in Routes
    /\ nav_index = 0
    /\ ac_lat \in Lats

NextNav ==
    \/ NavigationSystem_update
    \/ \E lat \in WaypointLats : NavigationSystem_add_waypoint(lat)
    \/ \E wpts \in Routes : FlightManagementSystem_load_route(wpts)
    \/ FlightManagementSystem_advance_waypoint
    \/ \E index \in -1 .. MaxRoute : MCDU_direct_to(index)
    \/ \E lat \in Lats : FDM_move(lat)

SpecNav == InitNav /\ [][NextNav]_vars

\* --- one Engine(fdm, 0) with its OilSystem as a unit ---------------------------
InitEngine ==
    /\ op = "init"
    /\ EnvIdle
    /\ StarterIdle
    /\ SysIdle
    /\ AutobrakeIdle
    /\ FuelIdle
    /\ NavIdle
    /\ EngineIdle
    /\ FireIdle
    /\ CockpitIdle

NextEngine ==
    \/ \E i \in TestEngines, throttle \in ThrottleInputs :
           Engine_set_target(i, throttle)
    \/ \E i \in TestEngines, rand_fail, ignite \in BOOLEAN :
           Engine_update(i, rand_fail, ignite)
    \/ \E i \in TestEngines : Engine_fail(i)
    \/ \E i \in TestEngines : Engine_restart(i)
    \/ \E i \in TestEngines : Engine_extinguish_fire(i)

SpecEngine == InitEngine /\ [][NextEngine]_vars

\* --- FireSuppressionSystem(engines) over the EngineSystem of two engines, whose
\* thrust was set by EngineSystem.set_target(0.2) ---------------------------------
InitFire ==
    /\ op = "init"
    /\ fdm_dt = FireDt
    /\ fdm_n1 = 0
    /\ apu_running = FALSE
    /\ StarterIdle
    /\ SysIdle
    /\ AutobrakeIdle
    /\ FuelIdle
    /\ NavIdle
    /\ eng = [i \in Engines |-> [EngineConstructed EXCEPT !.target = CruiseThrottle]]
    /\ throttle_cmd = [i \in Engines |-> 0]
    /\ eng_draws = {}
    /\ fire_age = [i \in Engines |-> 0]
    /\ failed_time = [i \in Engines |-> 0]
    /\ FireIdle
    /\ CockpitIdle

NextFire ==
    \/ \E G \in SUBSET Engines : EngineSystem_update(G)
    \/ FireSuppressionSystem_update
    \/ EngineSystem_set_target(CruiseThrottle)

SpecFire == InitFire /\ [][NextFire]_vars

\* --- the brakes and the autobrake of the simulator -----------------------------
InitBrakes ==
    /\ op = "init"
    /\ EnvIdle
    /\ StarterIdle
    /\ SysIdle
    /\ AutobrakeIdle
    /\ FuelIdle
    /\ NavIdle
    /\ EngineIdle
    /\ FireIdle
    /\ CockpitIdle

NextBrakes ==
    \/ \E on_ground \in BOOLEAN, speed_kt \in StepSpeeds,
          throttle \in StepThrottles :
           A320IFRSim_step_brakes(on_ground, speed_kt, throttle)
    \/ \E on \in BOOLEAN : A320IFRSim_set_parking_brake(on)
    \/ \E cmd \in BrakeCommandInputs : BrakeSystem_set_command(cmd)
    \/ \E on_ground \in BOOLEAN : BrakeSystem_update(on_ground)
    \/ AutobrakeSystem_set_level("med")

SpecBrakes == InitBrakes /\ [][NextBrakes]_vars

\* --- the master caution of the simulator ----------------------------------------
InitCaution ==
    /\ op = "init"
    /\ EnvIdle
    /\ StarterIdle
    /\ SysIdle
    /\ AutobrakeIdle
    /\ FuelIdle
    /\ NavIdle
    /\ EngineIdle
    /\ FireIdle
    /\ CockpitIdle

NextCaution ==
    \/ \E W \in SUBSET WarningNames : A320IFRSim_step_warnings(W)
    \/ \E on \in BOOLEAN : A320IFRSim_set_parking_brake(on)
    \/ MasterCautionSystem_reset

SpecCaution == InitCaution /\ [][NextCaution]_vars

\* --- Autopilot with the navigation system it reads ------------------------------
InitAutopilot ==
    /\ op = "init"
    /\ EnvIdle
    /\ StarterIdle
    /\ SysIdle
    /\ AutobrakeIdle
    /\ FuelIdle
    /\ nav_waypoints \in ApRoutes
    /\ nav_index = 0
    /\ ac_lat \in Lats
    /\ EngineIdle
    /\ FireIdle
    /\ CockpitIdle

NextAutopilot ==
    \/ \E altitude_arg \in ApAltitudeArgs, heading_arg \in ApHeadingArgs :
           Autopilot_set_targets(altitude_arg, heading_arg)
    \/ \E alt \in ApAltitudes, speed \in ApSpeeds, loc_dev \in LocDevs,
          gs_dev \in GsDevs, wp_alt \in WaypointAlts :
           Autopilot_update(alt, speed, loc_dev, gs_dev, wp_alt)
    \/ \E lat \in Lats : FDM_move(lat)

SpecAutopilot == InitAutopilot /\ [][NextAutopilot]_vars

\* --- ElectricSystem(rat=RamAirTurbine()) as a unit ---------------------------------
InitElectric ==
    /\ op = "init"
    /\ EnvIdle
    /\ StarterIdle
    /\ SysIdle
    /\ AutobrakeIdle
    /\ FuelIdle
    /\ NavIdle
    /\ EngineIdle
    /\ FireIdle
    /\ CockpitIdle

NextElectric ==
    \/ \E generator_on, gen_fails \in BOOLEAN, demand \in Demands :
           ElectricSystem_update(generator_on, demand, gen_fails)
    \/ ElectricSystem_start_apu
    \/ ElectricSystem_stop_apu

SpecElectric == InitElectric /\ [][NextElectric]_vars

\* --- the Autopilot's control loops, with the electrics that power them ------
InitControls ==
    /\ op = "init"
    /\ fdm_dt \in ControlDts
    /\ fdm_n1 = 0
    /\ apu_running = FALSE
    /\ StarterIdle
    /\ SysIdle
    /\ AutobrakeIdle
    /\ FuelIdle
    /\ NavIdle
    /\ EngineIdle
    /\ FireIdle
    /\ CockpitIdle

\* the electrics run without generator under the heaviest demand
NextControls ==
    \/ Autopilot_engage
    \/ Autopilot_disengage
    \/ \E vs_arg \in VsArgs : Autopilot_set_targets_vs(vs_arg)
    \/ \E fc \in FlightConditions, pressure \in Pressures :
           Autopilot_update_controls(fc, VnavMinSpeed, pressure)
    \/ ElectricSystem_update(FALSE, 300, FALSE)

SpecControls == InitControls /\ [][NextControls]_vars

\* --- the Autopilot's system automation and the crew's manual settings -------
InitAutomation ==
    /\ op = "init"
    /\ fdm_dt = AutomationDt
    /\ fdm_n1 = 0
    /\ apu_running = FALSE
    /\ StarterIdle
    /\ SysIdle
    /\ AutobrakeIdle
    /\ FuelIdle
    /\ NavIdle
    /\ EngineIdle
    /\ FireIdle
    /\ CockpitIdle

NextAutomation ==
    \/ \E enabled \in BOOLEAN : Autopilot_set_system_automation(enabled)
    \/ \E flap_arg \in CrewTargets :
           SystemManager_set_targets(NoArg, flap_arg, NoArg)
    \/ \E cmd \in CrewBrakeCommands : BrakeSystem_set_command(cmd)
    \/ AutobrakeSystem_set_level("med")
    \/ AntiIceSystem_set_active(TRUE)
    \/ WingIceSystem_set_active(TRUE)
    \/ PitotSystem_set_heat(FALSE)
    \/ \E sc \in AutoScenes, icing \in BOOLEAN :
           Autopilot_update_systems(sc, ThrottleThresholdPct - 1, icing)

SpecAutomation == InitAutomation /\ [][NextAutomation]_vars

\* --- the Autopilot's system automation with the autobrake at the levels
\* the crew selects
NextLanding ==
    \/ \E enabled \in BOOLEAN : Autopilot_set_system_automation(enabled)
    \/ \E cmd \in CrewBrakeCommands : BrakeSystem_set_command(cmd)
    \/ \E level \in CrewLevels : AutobrakeSystem_set_level(level)
    \/ \E sc \in LandingScenes :
           Autopilot_update_systems(sc, ThrottleThresholdPct - 1, FALSE)

SpecLanding == InitAutomation /\ [][NextLanding]_vars

\* --- the Autopilot's schedule and the crew's FlightControlPanel, with a
\* time step short enough for the hydraulics to move the surfaces
InitSchedule ==
    /\ op = "init"
    /\ fdm_dt = ScheduleDt
    /\ fdm_n1 = 0
    /\ apu_running = FALSE
    /\ StarterIdle
    /\ SysIdle
    /\ AutobrakeIdle
    /\ FuelIdle
    /\ NavIdle
    /\ EngineIdle
    /\ FireIdle
    /\ CockpitIdle

NextSchedule ==
    \/ \E gear_arg \in CrewTargets :
           SystemManager_set_targets(gear_arg, NoArg, NoArg)
    \/ \E flap_arg \in CrewTargets :
           SystemManager_set_targets(NoArg, flap_arg, NoArg)
    \/ \E speedbrake_arg \in CrewTargets :
           SystemManager_set_targets(NoArg, NoArg, speedbrake_arg)
    \/ \E sc \in ScheduleScenes :
           Autopilot_update_systems(sc, CruiseThrottle, FALSE)

SpecSchedule == InitSchedule /\ [][NextSchedule]_vars

\* --- the simulator stepping: A320IFRSim(dt=TickDt) as constructed, with the
\* engine start requested by init_conditions(), the speed target given by
\* set_targets and fuel in both tanks.  The APU runs, as init_conditions()
\* leaves it, or the crew has stopped it; the battery is full or flat -------
InitTick ==
    /\ op = "init"
    /\ fdm_dt = TickDt
    /\ fdm_n1 = 0
    /\ apu_running \in BOOLEAN
    /\ starter_state = "starting"
    /\ starter_timer = 0
    /\ failed = [i \in Engines |-> FALSE]
    /\ set_running = [i \in Engines |-> 0]
    /\ bleed_pressure = 0
    /\ restart_clock = -1
    /\ SysIdle
    /\ AutobrakeIdle
    /\ tank_left = TickFuel
    /\ tank_right = TickFuel
    /\ crossfeed_on = FALSE
    /\ fuel_ret = NoReturn
    /\ nav_waypoints = TickRoute
    /\ nav_index = 0
    /\ ac_lat = 0
    /\ EngineIdle
    /\ FireIdle
    /\ BrakeIdle
    /\ CautionIdle
    /\ AutopilotIdle
    /\ charge \in TickCharges
    /\ apu_timer = 0
    /\ generator_failed = FALSE
    /\ rat_deployed = FALSE
    /\ elec_ret = NoElecReturn
    /\ ControlsIdle
    /\ AutomationIdle
    /\ CallIdle
    /\ time_s = 0
    /\ step_log = <<>>
    /\ tick_ret = NoTickReturn
    /\ at_engaged = TRUE
    /\ at_target = InitTargetSpeed
    /\ at_ret = NoThrottleReturn
    /\ IceIdle

NextTick ==
    \/ \E sc \in TickScenes, ev \in TickEvents :
           A320IFRSim_step_all(sc, FALSE, ev)
    \/ Autopilot_set_system_automation(FALSE)

SpecTick == InitTick /\ [][NextTick]_vars

\* --- the Autothrottle over the EngineSystem of two engines, its speed target
\* given by set_targets; the crew sets the thrust by hand, switches the
\* autothrottle and may lose an engine --------------------------------------
InitThrottle ==
    /\ op = "init"
    /\ fdm_dt = ThrottleDt
    /\ fdm_n1 = 0
    /\ apu_running = FALSE
    /\ StarterIdle
    /\ SysIdle
    /\ AutobrakeIdle
    /\ FuelIdle
    /\ NavIdle
    /\ EngineIdle
    /\ FireIdle
    /\ BrakeIdle
    /\ CautionIdle
    /\ AutopilotIdle
    /\ ElectricIdle
    /\ ControlsIdle
    /\ AutomationIdle
    /\ CallIdle
    /\ time_s = 0
    /\ step_log = <<>>
    /\ tick_ret = NoTickReturn
    /\ at_engaged = TRUE
    /\ at_target = InitTargetSpeed
    /\ at_ret = NoThrottleReturn
    /\ IceIdle

NextThrottle ==
    \/ Autothrottle_engage
    \/ Autothrottle_disengage
    \/ Autothrottle_set_target(GearSpeedKt)
    \/ EngineSystem_set_target(CruiseThrottle)
    \/ Engine_fail(0)
    \/ \E powered \in BOOLEAN, speed \in IndicatedSpeeds :
           Autothrottle_update(powered, speed)

SpecThrottle == InitThrottle /\ [][NextThrottle]_vars

\* --- AntiIceSystem, WingIceSystem and PitotSystem as units, as A320IFRSim
\* constructs them; the crew operates the three switches and the engines
\* come and go as a source of bleed air --------------------------------------
IceInit(dt) ==
    /\ op = "init"
    /\ fdm_dt = dt
    /\ fdm_n1 = 0
    /\ apu_running = FALSE
    /\ StarterIdle
    /\ SysIdle
    /\ AutobrakeIdle
    /\ FuelIdle
    /\ NavIdle
    /\ EngineIdle
    /\ FireIdle
    /\ CockpitIdle

InitIce == IceInit(IceDt)

NextIce ==
    \/ \E state \in BOOLEAN : AntiIceSystem_set_active(state)
    \/ \E state \in BOOLEAN : WingIceSystem_set_active(state)
    \/ \E state \in BOOLEAN : PitotSystem_set_heat(state)
    \/ \E n1 \in N1Values : BleedAirSystem_update(n1)
    \/ \E icing, fails \in BOOLEAN : AntiIceSystem_update(icing, fails)
    \/ \E icing \in BOOLEAN : WingIceSystem_update(icing)
    \/ \E icing \in BOOLEAN : PitotSystem_update(icing)

SpecIce == InitIce /\ [][NextIce]_vars

\* --- Autopilot.update over the three accumulators with system automation
\* enabled throughout; the crew may operate the switches between the ticks --
InitIcing == IceInit(IceDt)

NextIcing ==
    \/ AntiIceSystem_set_active(FALSE)
    \/ WingIceSystem_set_active(FALSE)
    \/ PitotSystem_set_heat(TRUE)
    \/ \E n1 \in N1Values : BleedAirSystem_update(n1)
    \/ \E icing \in BOOLEAN : Autopilot_update_ice(icing)

SpecIcing == InitIcing /\ [][NextIcing]_vars

\* --- the engines, the surfaces with their hydraulics, the electrics, the
\* brakes and the oxygen as A320IFRSim constructs them, updated with a long
\* time step, so that one update takes a quantity to its limit, while the
\* crew gives commands outside [0, 1] --------------------------------------
RangeDt == 25               \* A320IFRSim(dt=...), seconds
RangeCommands == {-20, 120}     \* arguments of the setters, percent
RangeSpeed == 200           \* speed_kt, below the overspeed limits
\* dt of SystemManager.update: one under which the hydraulics keep their
\* pressure while a surface moves, and the long one, which empties them
RangeSysDts == {1, RangeDt}
RangeDemands == {300}       \* demand of ElectricSystem.update, percent

InitRange ==
    /\ op = "init"
    /\ fdm_dt = RangeDt
    /\ fdm_n1 = 0
    /\ apu_running = FALSE
    /\ StarterIdle
    /\ SysIdle
    /\ AutobrakeIdle
    /\ FuelIdle
    /\ NavIdle
    /\ EngineIdle
    /\ FireIdle
    /\ CockpitIdle

NextRange ==
    \/ \E cmd \in RangeCommands : EngineSystem_set_target(cmd)
    \/ EngineSystem_update({})
    \/ \E t \in TargetInputs : SystemManager_set_targets(NoArg, NoArg, {t})
    \/ \E dt \in RangeSysDts :
           SystemManager_update(dt, TRUE, RangeSpeed, FALSE)
    \/ \E demand \in RangeDemands :
           ElectricSystem_update(FALSE, demand, FALSE)
    \/ \E cmd \in RangeCommands : BrakeSystem_set_command(cmd)
    \/ \E on_ground \in BOOLEAN : BrakeSystem_update(on_ground)
    \/ \E cabin_alt \in CabinAltitudes : OxygenSystem_update(cabin_alt)

SpecRange == InitRange /\ [][NextRange]_vars

\* --- FuelSystem(fdm, engine, electrics) with the crew at the FuelPanel: no
\* fuel is burned, and a step can transfer more than the imbalance at which
\* crossfeed disengages
InitCrossfeed ==
    /\ op = "init"
    /\ EngineIdle
    /\ FireIdle
    /\ CockpitIdle
    /\ fdm_dt \in CrossfeedDts
    /\ fdm_n1 = 0
    /\ apu_running = FALSE
    /\ StarterIdle
    /\ SysIdle
    /\ AutobrakeIdle
    /\ tank_left \in FuelGrid
    /\ tank_right \in FuelGrid
    /\ crossfeed_on = FALSE
    /\ fuel_ret = NoReturn
    /\ NavIdle

NextCrossfeed ==
    \/ FuelSystem_update
    \/ \E on \in BOOLEAN : FuelPanel_set_crossfeed(on)

SpecCrossfeed == InitCrossfeed /\ [][NextCrossfeed]_vars

\* FuelSystem.update called again and again, nothing else happening
NextTransfer == FuelSystem_update

SpecTransfer ==
    InitCrossfeed /\ [][NextTransfer]_vars /\ WF_vars(FuelSystem_update)
(***************************************************************************)
(* Claims about the engine start sequence                                  *)
(***************************************************************************)

\* C1: once request_start() has been issued for a failed engine and step()
\* has seen bleed pressure above 0.3 for start_time seconds (with no new
\* failure in between), no engine is failed and every set-running property
\* is 1 -- also when the starter had already reached "running".
C1_RestartAfterRequest ==
    restart_clock >= StartTime =>
        \A i \in Engines : ~failed[i] /\ set_running[i] = 1

\* C2: the starter reaches "running" only from "starting" in an update whose
\* timer has reached start_time, and that update writes set-running = 1 and
\* clears failed on every engine; the timer advances only by dt and only in
\* an update that sees bleed pressure > 0.3; set-running is never raised and
\* failed never cleared in any other transition.
C2_StartIsBleedGated ==
    [][ /\ (starter_state' = "running" /\ starter_state # "running") =>
              /\ op' = "starter_update"
              /\ starter_state = "starting"
              /\ starter_timer' >= StartTime
              /\ \A i \in Engines : set_running'[i] = 1 /\ ~failed'[i]
        /\ (starter_timer' > starter_timer) =>
              /\ op' = "starter_update"
              /\ starter_state = "starting"
              /\ bleed_pressure > StartBleedThreshold
              /\ (starter_timer' - starter_timer) \in StarterDts
        /\ (\E i \in Engines : \/ set_running[i] = 0 /\ set_running'[i] = 1
                               \/ failed[i] /\ ~failed'[i]) =>
              /\ op' = "starter_update"
              /\ starter_state = "starting"
              /\ starter_state' = "running"
      ]_vars

\* C2 witness: an update has just completed the start, after bleed-gated
\* timing, with an engine that had failed during the start now restored.
C2_Witness ==
    /\ op = "starter_update"
    /\ starter_state = "running"
    /\ starter_timer >= StartTime
    /\ \A i \in Engines : set_running[i] = 1 /\ ~failed[i]

\* C3: the starter state changes only stopped -> starting (request_start) and
\* starting -> running (update); request_start() in state starting or running
\* leaves state, timer and set-running unchanged; update() in state stopped
\* or running changes nothing.
C3_StarterTransitions ==
    [][ /\ (starter_state' # starter_state) =>
              \/ /\ starter_state = "stopped" /\ starter_state' = "starting"
                 /\ op' = "request_start"
              \/ /\ starter_state = "starting" /\ starter_state' = "running"
                 /\ op' = "starter_update"
        /\ (op' = "request_start" /\ starter_state \in {"starting", "running"}) =>
              UNCHANGED <<starter_state, starter_timer, set_running, failed>>
        /\ (op' = "starter_update" /\ starter_state \in {"stopped", "running"}) =>
              UNCHANGED <<starter_state, starter_timer, set_running, failed>>
      ]_vars

\* C3 witness: request_start() was issued while the starter was running with
\* a failed engine, and left the starter running.
C3_Witness ==
    /\ op = "request_start"
    /\ starter_state = "running"
    /\ AnyFailed(failed)

(***************************************************************************)
(* Claims about SystemManager, AutobrakeSystem, FuelSystem, navigation     *)
(***************************************************************************)

\* C4: once flap_operable (gear_operable) is false it is false in every later
\* state, whatever set_targets and update calls follow.
C4_DamageIsPermanent ==
    [][ /\ (~sys.flap_operable => ~sys'.flap_operable)
        /\ (~sys.gear_operable => ~sys'.gear_operable) ]_vars

\* C4 witness: after the damage the crew has set the flap and gear targets
\* back to where the surfaces stand and an update has run with nothing left
\* to move, and both flags are still false.
C4_Witness ==
    /\ op = "systems_update"
    /\ ~sys.flap_operable /\ ~sys.gear_operable
    /\ sys.target_flap = sys.flap /\ sys.target_gear = sys.gear

\* C5: after AutobrakeSystem.update(on_ground, speed, throttle): on the
\* ground above arm_speed with throttle below the threshold and a level other
\* than off, active is true; the same with throttle at or above the
\* threshold, active is false; off the ground active is false for every
\* level and every earlier value of active.
C5_AutobrakeArming ==
    op = "autobrake_update" =>
        /\ (/\ ab_args.on_ground /\ ab_args.speed_kt > ArmSpeedKt
            /\ ab_args.throttle < ThrottleThresholdPct /\ ab_level # "off")
               => ab_active
        /\ (/\ ab_args.on_ground /\ ab_args.speed_kt > ArmSpeedKt
            /\ ab_args.throttle >= ThrottleThresholdPct /\ ab_level # "off")
               => ~ab_active
        /\ ~ab_args.on_ground => ~ab_active

\* C5 witness: the autobrake is armed and active on the ground.
C5_Witness ==
    /\ op = "autobrake_update"
    /\ ab_args.on_ground /\ ab_args.speed_kt > ArmSpeedKt
    /\ ab_args.throttle < ThrottleThresholdPct
    /\ ab_level = "med" /\ ab_active /\ brake_command = LEVELS["med"]

\* C6: FuelSystem.update turns crossfeed_on from false to true only when the
\* imbalance it reads is strictly above balance_threshold_lbs; with crossfeed
\* off and the imbalance at most the threshold it leaves crossfeed off.
C6_CrossfeedEngage ==
    [][ op' = "fuel_update" =>
          /\ (~crossfeed_on /\ crossfeed_on') =>
                 Abs(tank_left - tank_right) > BalanceThresholdLbs
          /\ (~crossfeed_on /\ Abs(tank_left - tank_right) <= BalanceThresholdLbs)
                 => ~crossfeed_on' ]_vars

\* C6 witness: an update that began with crossfeed off has engaged it and
\* left it on.
C6_Witness ==
    /\ op = "fuel_update"
    /\ ~fuel_ret.entry_crossfeed
    /\ crossfeed_on
    /\ 5 * fuel_ret.after_transfer >= BalanceThresholdLbs

\* C7: at the end of FuelSystem.update crossfeed_on is false whenever the
\* imbalance left by that update's transfer is below 20% of the threshold.
C7_CrossfeedDisengage ==
    op = "fuel_update" =>
        /\ 5 * fuel_ret.after_transfer < BalanceThresholdLbs => ~crossfeed_on
        /\ (crossfeed_on /\ ~apu_running) =>
               5 * Abs(tank_left - tank_right) >= BalanceThresholdLbs

\* C7 witness: an update has transferred fuel, brought the imbalance below
\* 20% of the threshold and switched crossfeed off.
C7_Witness ==
    /\ op = "fuel_update"
    /\ ~crossfeed_on
    /\ fuel_ret.after_transfer > 0
    /\ 5 * fuel_ret.after_transfer < BalanceThresholdLbs
    /\ tank_right > 0

\* C8: FuelSystem.update never increases the total: the sum written back and
\* reported is at most the sum read; without the APU it is the same sum; the
\* reduction is at most the APU burn and comes off the left tank; no tank
\* goes below 0.
C8_FuelTotal ==
    [][ op' = "fuel_update" =>
          LET before == tank_left + tank_right
              after == tank_left' + tank_right'
              reduction == before - after
              burn == (ApuFlowPph * fdm_dt) \div 3600
              \* the left tank before the reduction was taken from it
              left_unburned == tank_left' + reduction
          IN  /\ after <= before
              /\ fuel_ret'.total_lbs = after
              /\ fuel_ret'.left_lbs = tank_left'
              /\ fuel_ret'.right_lbs = tank_right'
              /\ reduction = IF apu_running THEN Min(burn, left_unburned) ELSE 0
              /\ fuel_ret'.after_transfer = Abs(left_unburned - tank_right')
              /\ left_unburned + tank_right' = before
              /\ tank_left' >= 0 /\ tank_right' >= 0 ]_vars

\* C8 witness: an update has moved fuel across with crossfeed on and the APU
\* has burned the left tank empty.
C8_Witness ==
    /\ op = "fuel_update"
    /\ apu_running
    /\ fuel_ret.entry_crossfeed
    /\ fuel_ret.apu_flow_pph = ApuFlowPph
    /\ fuel_ret.after_transfer > 0
    /\ tank_left = 0 /\ tank_right > 0

\* C9: NavigationSystem.update raises the index by at most one, and only when
\* the waypoint active at the start of the update is nearer than 0.3 nm and a
\* later waypoint exists; the last waypoint is never passed.
C9_WaypointSequencing ==
    [][ op' = "nav_update" =>
          /\ nav_index' \in {nav_index, nav_index + 1}
          /\ nav_index' = nav_index + 1 =>
                /\ NavDistance(ac_lat, nav_waypoints[nav_index + 1]) < ArrivalRadius
                /\ nav_index < Len(nav_waypoints) - 1
          /\ Len(nav_waypoints) > 0 => nav_index' <= Len(nav_waypoints) - 1 ]_vars

\* C9 witness: the index stands at the second of three waypoints after an
\* update, with the second and the third waypoint both nearer than 0.3 nm.
C9_Witness ==
    /\ op = "nav_update"
    /\ Len(nav_waypoints) = 3
    /\ nav_index = 1
    /\ \A k \in 1 .. 3 : NavDistance(ac_lat, nav_waypoints[k]) < ArrivalRadius

\* C10: with a non-empty route 0 <= index < len(route); update and
\* advance_waypoint never decrease the index; load_route sets it to 0.
C10_IndexInRange ==
    /\ [](Len(nav_waypoints) > 0 =>
              0 <= nav_index /\ nav_index < Len(nav_waypoints))
    /\ [][ /\ op' \in {"nav_update", "advance_waypoint"} => nav_index' >= nav_index
           /\ op' = "load_route" => nav_index' = 0 ]_vars

\* C10 witness: direct-to has put the index on the last waypoint of a full
\* route.
C10_Witness ==
    /\ op = "direct_to"
    /\ Len(nav_waypoints) = MaxRoute
    /\ nav_index = MaxRoute - 1


(***************************************************************************)
(* Engine fires and the fire suppression system                            *)
(***************************************************************************)

C12_FireWithoutBottles ==
    /\ [][(op' = "fire_update" /\ fs_bottles = 0
              /\ fs_active_engine = NoEngine) =>
            /\ fs_ret'.started = NoEngine
            /\ fs_ret'.cleared = NoEngine
            /\ fs_active_engine' = NoEngine
            /\ \A i \in Engines : eng'[i].fire = eng[i].fire
            /\ fs_ret'.fire = \E i \in Engines : eng[i].fire]_vars
    /\ [][op' = "engines_update" =>
            \A i \in Engines : eng[i].fire => eng'[i].fire]_vars
    /\ [](\A i \in Engines : fire_age[i] > FireTimeLimit => failed[i])

\* both bottles are gone, an update has just left a fire burning, and that
\* fire has failed its engine
C12_Witness ==
    /\ op = "fire_update"
    /\ fs_bottles = 0
    /\ fs_active_engine = NoEngine
    /\ fs_ret.fire
    /\ \E i \in Engines :
          eng[i].fire /\ fire_age[i] > FireTimeLimit /\ failed[i]

\* C13: the engine whose service starts is the one that has been burning
\* longest, so that no engine with an earlier fire waits while a later fire
\* gets a bottle.
C13_ServiceInFireOrder ==
    [][(op' = "fire_update" /\ fs_ret'.started # NoEngine
           /\ fire_queue # <<>>) =>
          fs_ret'.started = {Head(fire_queue)}]_vars

(***************************************************************************)
(* Master caution and parking brake                                        *)
(***************************************************************************)

\* C14: the master_caution that step() returns is true exactly when at
\* least one of the stall, GPWS, overspeed, fire and TCAS warnings of that
\* tick is on.
C14_CautionIffAnyWarning ==
    op = "step_warnings" =>
        (step_ret.master_caution <=>
            \/ step_ret.stall_warning
            \/ step_ret.gpws_warning
            \/ step_ret.overspeed_warning
            \/ step_ret.engine_fire
            \/ step_ret.tcas_alert)

\* C15: while the parking brake is set, every BrakeSystem.update, alone or
\* inside step(), on the ground or not and whatever the brake command,
\* applies 1.0: the heat rises by heat_rate * 1.0 * dt before cooling; and
\* step() reports parking_brake as true.
C15_ParkingBrakeApplies ==
    [][(op' \in {"brake_update", "step_brakes"} /\ parking_brake) =>
          /\ brake_ret'.applied = 100
          /\ brake_heat' = Clamp(brake_heat + BrakeHeatRatePct * fdm_dt
                                    - BrakeCoolRatePct * fdm_dt, 0, 100)
          /\ parking_brake'
          /\ op' = "step_brakes" => step_ret'.parking_brake]_vars

\* a step() in the air with the parking brake set and no brake command
C15_Witness ==
    /\ op = "step_brakes"
    /\ parking_brake
    /\ ~brake_ret.on_ground
    /\ brake_command = 0
    /\ brake_ret.applied = 100
    /\ brake_heat > 0
    /\ step_ret.parking_brake

(***************************************************************************)
(* Engine failure and restart                                              *)
(***************************************************************************)

\* C16: Engine.restart changes nothing but failed, which it sets to false:
\* throttle, target, EGT, oil state, fire flag, timers and the FDM
\* properties stay as they are, so on an engine that is not failed nothing
\* changes; a second restart() changes nothing more.
C16_RestartClearsOnlyFailed ==
    [][op' = "engine_restart" =>
          \A i \in TestEngines :
             /\ EngineRec(i)' = [EngineRec(i) EXCEPT !.failed = FALSE]
             /\ ~failed[i] => EngineRec(i)' = EngineRec(i)
             /\ engine_restart_f(EngineRec(i)') = EngineRec(i)'
             /\ engine_restart_f(engine_restart_f(EngineRec(i)))
                   = engine_restart_f(EngineRec(i))]_vars

\* a restart of an engine that had failed from a fire: the fire still burns
\* and its timer is past the limit
C16_Witness ==
    /\ op = "engine_restart"
    /\ ~failed[0]
    /\ set_running[0] = 0
    /\ eng[0].fire
    /\ eng[0].fire_timer > FireTimeLimit

C18_RestartRecovers ==
    [][(/\ op = "engine_restart"
        /\ op' = "engine_update"
        /\ ~failed[0]
        /\ eng_draws' = {}
        /\ eng'[0].egt_timer - failed_time[0] <= EgtTimeLimit
        /\ eng'[0].oil_timer - failed_time[0] <= OilTimeLimit
        /\ eng'[0].fire_timer - failed_time[0] <= FireTimeLimit)
          => ~failed'[0]]_vars

(***************************************************************************)
(* Autopilot targets and vertical mode                                     *)
(***************************************************************************)

\* C19: after Autopilot.update the vertical mode is APP when the ILS gave a
\* localizer deviation; otherwise VNAV when the active waypoint gave an
\* altitude, is more than 0.1 nm away and the speed is above 30 kt;
\* otherwise ALT when the altitude error is within the capture window and
\* VS when it is not.
C19_ModePriority ==
    op = "autopilot_update" =>
        vertical_mode = IF ap_args.ils THEN "APP"
                        ELSE IF ap_args.vnav THEN "VNAV"
                        ELSE IF ap_args.captured THEN "ALT"
                        ELSE "VS"

\* C20: after set_targets and after Autopilot.update the heading target is
\* at least 0 and below 360.
C20_HeadingNormalized ==
    op \in {"ap_set_targets", "autopilot_update"} =>
        (0 <= ap_heading /\ ap_heading < 360)

(***************************************************************************)
(* Commands that are rejected                                              *)
(***************************************************************************)

\* C23: MCDU.direct_to with an index outside [0, len(route)) raises
\* IndexError and leaves the navigation index and the route as they were;
\* with an index inside the range it returns and the navigation index is
\* that index.
C23_DirectToRejects ==
    [][op' = "direct_to" =>
          \A index \in call_ret'.arg :
             /\ call_ret'.call = "direct_to"
             /\ nav_waypoints' = nav_waypoints
             /\ IF 0 <= index /\ index < Len(nav_waypoints)
                THEN call_ret'.signal = "none" /\ nav_index' = index
                ELSE call_ret'.signal = "IndexError"
                     /\ nav_index' = nav_index]_vars

\* a direct-to past the end of a route of two waypoints was rejected while
\* the second waypoint was active
C23_Witness ==
    /\ op = "direct_to"
    /\ call_ret.signal = "IndexError"
    /\ call_ret.arg = {Len(nav_waypoints)}
    /\ Len(nav_waypoints) = 2
    /\ nav_index = 1

\* C24: AutobrakeSystem.set_level with a name that is no level leaves level
\* and active as they were and signals the failure to the caller.
C24_UnknownLevelRejected ==
    [][op' = "set_level" =>
          \A level \in call_ret'.arg :
             level \notin LevelNames =>
                /\ ab_level' = ab_level
                /\ ab_active' = ab_active
                /\ call_ret'.signal # "none"]_vars

(***************************************************************************)
(* ElectricSystem and RamAirTurbine                                        *)
(***************************************************************************)

\* C25 as stated: at the end of every ElectricSystem.update, with the charge
\* the update ends with: below 0.3 without generator the APU runs, above
\* 0.95 with generator it does not, and in every other case apu_running is
\* what it was before the update.
C25_ApuPolicyAtEnd ==
    [][op' = "electric_update" =>
          LET gen == elec_ret'.generator_available
          IN  /\ charge' < ApuStartChargePct /\ ~gen => apu_running'
              /\ charge' > ApuStopChargePct /\ gen => ~apu_running'
              /\ ~(charge' < ApuStartChargePct /\ ~gen)
                   /\ ~(charge' > ApuStopChargePct /\ gen)
                   => apu_running' = apu_running]_vars

\* C25 amended: the same three cases, with the charge the update holds after
\* charging, discharging and clamping, before the ram air turbine adds to
\* it.
C25_ApuPolicy ==
    [][op' = "electric_update" =>
          LET gen == elec_ret'.generator_available
              seen == elec_ret'.charge_seen
          IN  /\ seen < ApuStartChargePct /\ ~gen => apu_running'
              /\ seen > ApuStopChargePct /\ gen => ~apu_running'
              /\ ~(seen < ApuStartChargePct /\ ~gen)
                   /\ ~(seen > ApuStopChargePct /\ gen)
                   => apu_running' = apu_running]_vars

\* an update found the APU stopped, the charge low and no generator, and
\* started the APU
C25_Witness ==
    /\ op = "electric_update"
    /\ ~elec_ret.apu_before
    /\ ~elec_ret.generator_available
    /\ elec_ret.charge_seen < ApuStartChargePct
    /\ apu_running

\* an update found the APU running, the battery recovered and the generator
\* available, and stopped the APU
C25_WitnessStop ==
    /\ op = "electric_update"
    /\ elec_ret.apu_before
    /\ elec_ret.generator_available
    /\ elec_ret.charge_seen > ApuStopChargePct
    /\ ~apu_running

\* C26: the ram air turbine changes only in ElectricSystem.update.  It goes
\* from stowed to deployed only in an update that sees the charge below the
\* deploy threshold with no generator power; it is stowed after every update
\* in which the generator is available or the charge seen is above the
\* retract threshold; an update that leaves it deployed adds charge_rate*dt
\* to the charge, capped at 1.0, and one that leaves it stowed adds nothing.
C26_RatPolicy ==
    [][/\ rat_deployed' # rat_deployed => op' = "electric_update"
       /\ op' = "electric_update" =>
             LET gen == elec_ret'.generator_available
                 seen == elec_ret'.charge_seen
             IN  /\ ~rat_deployed /\ rat_deployed'
                      => seen < RatDeployPct /\ ~gen
                 /\ gen \/ seen > RatRetractPct => ~rat_deployed'
                 /\ rat_deployed' => ~gen
                 /\ charge' = IF rat_deployed'
                              THEN Min(100, seen + RatChargeRatePct * fdm_dt)
                              ELSE seen]_vars

\* an update found the turbine stowed, deployed it and took its first
\* contribution to the charge
C26_Witness ==
    /\ op = "electric_update"
    /\ ~elec_ret.rat_before
    /\ rat_deployed
    /\ charge = elec_ret.charge_seen + RatChargeRatePct * fdm_dt

\* an update found the turbine deployed and the generator back, and stowed it
C26_WitnessRetract ==
    /\ op = "electric_update"
    /\ elec_ret.rat_before
    /\ elec_ret.generator_available
    /\ ~rat_deployed

(***************************************************************************)
(* Autopilot: flight control commands and control loops                    *)
(***************************************************************************)

\* C21: after every Autopilot.update that runs while the electrics are not
\* powered (charge <= 0.05) the elevator, aileron and rudder commands are 0,
\* engaged or not and whatever they were before.
C21_UnpoweredCommandsZero ==
    [][op' = "autopilot_controls" /\ ~is_powered_f(ElecRec)
          => fcs_cmd' = NoCommands]_vars

\* C22 as stated: a disengaged, powered update writes 0 to the three
\* commands; engage and disengage leave every controller's integral and
\* previous error alone; and at re-engage every controller holds what it
\* held at disengage.
C22_PidKeptUntilReengage ==
    [][/\ op' = "autopilot_controls" /\ ~engaged /\ is_powered_f(ElecRec)
            => fcs_cmd' = NoCommands
       /\ op' \in {"ap_engage", "ap_disengage"} => pid' = pid
       /\ op' = "ap_engage" /\ ~engaged => pid' = pid_at_disengage]_vars

\* C22 amended: as stated, but at re-engage it is the vertical speed,
\* heading and yaw controllers that hold what they held at disengage; the
\* altitude controller does not take part.
C22_PidNotReset ==
    [][/\ op' = "autopilot_controls" /\ ~engaged /\ is_powered_f(ElecRec)
            => fcs_cmd' = NoCommands
       /\ op' \in {"ap_engage", "ap_disengage"} => pid' = pid
       /\ op' = "ap_engage" /\ ~engaged
            => \A n \in PidNames \ {"alt"} : pid'[n] = pid_at_disengage[n]]_vars

\* the autopilot was re-engaged after an update that ran while it was
\* disengaged (the altitude controller has moved since the disengagement),
\* and its vertical speed controller still holds a non-zero integral
C22_Witness ==
    /\ op = "ap_engage"
    /\ engaged
    /\ pid["alt"] # pid_at_disengage["alt"]
    /\ pid["vs"].integral # 0
    /\ pid["vs"] = pid_at_disengage["vs"]

\* a disengaged, powered update has zeroed commands that were not zero
C22_WitnessZeroed ==
    /\ op = "autopilot_controls"
    /\ ~engaged
    /\ is_powered_f(ElecRec)
    /\ fcs_cmd = NoCommands
    /\ pid["hdg"].prev_error # 0

(***************************************************************************)
(* Autopilot: system automation                                            *)
(***************************************************************************)

\* C30 as stated: with system automation disabled, Autopilot.update changes
\* none of the gear, flap and speedbrake targets, the autobrake active
\* flag, the brake command, and the engine anti-ice, wing anti-ice and
\* pitot heat switches.
C30_ManualSettingsKept ==
    [][op' = "autopilot_systems" /\ ~auto_manage_systems =>
          /\ sys'.target_gear = sys.target_gear
          /\ sys'.target_flap = sys.target_flap
          /\ sys'.target_speedbrake = sys.target_speedbrake
          /\ ab_active' = ab_active
          /\ brake_command' = brake_command
          /\ anti_ice_active' = anti_ice_active
          /\ wing_ice_active' = wing_ice_active
          /\ pitot_heat' = pitot_heat]_vars

\* C30 amended: as stated, except for the brake command, which the update
\* sets to 0 when the aircraft is off the ground with the parking brake
\* released and leaves alone otherwise.
C30_ManualSettingsKeptButBrake ==
    [][op' = "autopilot_systems" /\ ~auto_manage_systems =>
          /\ sys'.target_gear = sys.target_gear
          /\ sys'.target_flap = sys.target_flap
          /\ sys'.target_speedbrake = sys.target_speedbrake
          /\ ab_active' = ab_active
          /\ brake_command' = IF ~brake_ret'.on_ground /\ ~parking_brake
                              THEN 0 ELSE brake_command
          /\ anti_ice_active' = anti_ice_active
          /\ wing_ice_active' = wing_ice_active
          /\ pitot_heat' = pitot_heat]_vars

\* an update on the ground with automation disabled has left the autobrake
\* active with its brake command, the flap target at the crew's 0 where the
\* schedule asks for full flap, and the crew's switch settings
C30_Witness ==
    /\ op = "autopilot_systems"
    /\ ~auto_manage_systems
    /\ brake_ret.on_ground
    /\ ab_active
    /\ brake_command = LEVELS[ab_level]
    /\ sys.target_flap = 0
    /\ anti_ice_active
    /\ ~pitot_heat

(***************************************************************************)
(* The order of the updates in one step()                                  *)
(***************************************************************************)
\* the subsystems C27 names, in the order it gives them
ClaimedOrder ==
    <<"Environment", "EngineStartSystem", "Autopilot", "ILSSystem",
      "NavigationSystem", "Autopilot._manage_systems", "AutobrakeSystem",
      "SystemManager", "BrakeSystem", "Autothrottle", "EngineSystem",
      "AntiIceSystem", "WingIceSystem", "ElectricSystem",
      "PressurizationSystem", "CabinTemperatureSystem", "FuelSystem",
      "OxygenSystem", "FireSuppressionSystem", "StallWarningSystem",
      "GroundProximityWarningSystem", "OverspeedWarningSystem",
      "WeatherRadarSystem", "TCASSystem", "MasterCautionSystem", "FDM">>

IsClaimed(name) == \E k \in 1 .. Len(ClaimedOrder) : ClaimedOrder[k] = name
NotAutobrake(name) == name # "AutobrakeSystem"
\* the place of a call in a log that holds it
Pos(log, name) == CHOOSE k \in 1 .. Len(log) : log[k] = name
NoRepeat(log) ==
    \A j, k \in 1 .. Len(log) : log[j] = log[k] => j = k

\* C27 as stated: every step() updates each of the named subsystems
\* exactly once, in the order given, the autobrake included.
C27_FixedOrder ==
    op = "tick" => SelectSeq(step_log, IsClaimed) = ClaimedOrder

\* C27: every step() makes each of its update calls once; the named
\* subsystems are updated in the order given, and the autobrake, which is
\* updated inside the system scheduling, is updated there when system
\* automation is enabled and not at all when it is disabled.
C27_FixedOrderAutobrakeIfAutomation ==
    op = "tick" =>
        /\ NoRepeat(step_log)
        /\ SelectSeq(step_log, IsClaimed) =
               IF auto_manage_systems THEN ClaimedOrder
               ELSE SelectSeq(ClaimedOrder, NotAutobrake)

\* a step() made with automation disabled and the electrics not powered
C27_Witness ==
    /\ op = "tick"
    /\ ~auto_manage_systems
    /\ ~tick_ret.powered
    /\ Len(step_log) > 0

\* C28 as stated: in one step() SystemManager.update comes after
\* _manage_systems, and the engines' update of that step comes before the
\* SystemManager.update that reads their n1 for the pump power.
C28_PumpSeesEngineUpdate ==
    op = "tick" =>
        /\ Pos(step_log, "Autopilot._manage_systems")
               < Pos(step_log, "SystemManager")
        /\ Pos(step_log, "EngineSystem") < Pos(step_log, "SystemManager")

\* C28: in one step() SystemManager.update comes after _manage_systems and
\* before the engines' update, which comes before fdm.run(); the n1 that
\* decides the pump power of SystemManager.update is the n1 the FDM
\* reported when the step began, the one the previous fdm.run() left.
C28_PumpSeesPreviousRun ==
    [][op' = "tick" =>
          /\ Pos(step_log', "Autopilot._manage_systems")
                 < Pos(step_log', "SystemManager")
          /\ Pos(step_log', "SystemManager") < Pos(step_log', "EngineSystem")
          /\ Pos(step_log', "EngineSystem") < Pos(step_log', "FDM")
          /\ tick_ret'.pump_n1 = fdm_n1
          /\ tick_ret'.pump_power = (fdm_n1 > PumpN1Pct \/ apu_running)]_vars

\* a step() whose pump had no power, the n1 at its start and the APU being
\* down, although the n1 its fdm.run() left is above the pump threshold
C28_Witness ==
    /\ op = "tick"
    /\ ~tick_ret.pump_power
    /\ tick_ret.pump_n1 <= PumpN1Pct
    /\ fdm_n1 > PumpN1Pct

AdvancedOnce(i, t) ==
    EngineState(engine_update_f([EngineRec(i) EXCEPT !.target = t],
                                fdm_dt, FALSE, FALSE, FALSE))

\* C31: when the autothrottle is disengaged or the electrics are unpowered,
\* Autothrottle.update leaves every engine's throttle target unchanged and
\* advances each engine's dynamics exactly once; when engaged and powered it
\* sets every engine's target to the PID output clamped to [0, 1] and then
\* advances each engine exactly once.
C31_AutothrottleFrame ==
    [][op' = "autothrottle_update" =>
        LET held == ~at_engaged \/ ~at_ret'.powered
            cmd == Clamp(ThrottlePctPerKt * (at_target - at_ret'.speed),
                         0, 100)
        IN  \A i \in Engines :
                /\ eng'[i].target = IF held THEN eng[i].target ELSE cmd
                /\ eng'[i] = AdvancedOnce(i, eng'[i].target)]_vars

\* an unpowered update of the engaged autothrottle has left a hand-set
\* target alone that differs from the command, and the engines have moved
\* toward it without reaching it
C31_Witness ==
    /\ op = "autothrottle_update"
    /\ at_engaged /\ ~at_ret.powered
    /\ \A i \in Engines :
           /\ eng[i].target = CruiseThrottle
           /\ eng[i].target #
                  Clamp(ThrottlePctPerKt * (at_target - at_ret.speed), 0, 100)
           /\ ~failed[i]
    /\ at_ret.throttle > 0

\* a surface at position p' that was at p has moved toward its target t as
\* the hydraulic pressure allows: never away from it nor past it, and
\* closer whenever there is pressure and it was not there
MovedToward(p, pnew, t, pressure) ==
    /\ Abs(t - pnew) <= Abs(t - p)
    /\ (t - p) * (t - pnew) >= 0
    /\ (pressure > 0 /\ t # p) => Abs(t - pnew) < Abs(t - p)

\* C32: in SystemManager.update the flap (gear) operable flag becomes false
\* exactly when it was true, the speed passed in is above the flap (gear)
\* overspeed limit and the flap (gear) target differs from its position;
\* from that update on the flap (gear) position never changes again, while
\* the other surface and the speedbrake keep moving toward their targets.
C32_OverspeedDamage ==
    [][ /\ (~sys'.flap_operable => sys'.flap = sys.flap)
        /\ (~sys'.gear_operable => sys'.gear = sys.gear)
        /\ (~sys.flap_operable => ~sys'.flap_operable)
        /\ (~sys.gear_operable => ~sys'.gear_operable)
        /\ op' = "systems_update" =>
             /\ (sys.flap_operable /\ ~sys'.flap_operable)
                    <=> /\ sys.flap_operable
                        /\ sys'.speed_seen > FlapOverspeedKt
                        /\ sys.target_flap # sys.flap
             /\ (sys.gear_operable /\ ~sys'.gear_operable)
                    <=> /\ sys.gear_operable
                        /\ sys'.speed_seen > GearOverspeedKt
                        /\ sys.target_gear # sys.gear
             /\ sys'.flap_operable =>
                    MovedToward(sys.flap, sys'.flap, sys.target_flap,
                                sys'.pressure)
             /\ sys'.gear_operable =>
                    MovedToward(sys.gear, sys'.gear, sys.target_gear,
                                sys'.pressure)
             /\ MovedToward(sys.speedbrake, sys'.speedbrake,
                            sys.target_speedbrake, sys'.pressure) ]_vars

\* an update has left the damaged flaps short of their target while the
\* gear and the speedbrake have reached theirs
C32_Witness ==
    /\ op = "systems_update"
    /\ ~sys.flap_operable /\ sys.gear_operable
    /\ sys.flap # sys.target_flap
    /\ sys.gear = Quant /\ sys.target_gear = Quant
    /\ sys.speedbrake = Quant /\ sys.target_speedbrake = Quant

\* C33: the starter leaves state starting only after bleed pressure has been
\* above the threshold for an uninterrupted period of start_time: an update
\* that finds the bleed pressure at or below 0.3 during starting discards
\* the time already counted, so that the full duration must be met again.
C33_StartTimeUninterrupted ==
    [][(/\ op' = "starter_update"
        /\ starter_state = "starting"
        /\ bleed_pressure <= StartBleedThreshold)
           => /\ starter_timer' = 0
              /\ starter_state' = "starting"]_vars

\* the accumulator that the latest operation updated, its value before (v)
\* and after (w) that update and its protection switch
IceUpdates ==
    { [name |-> "anti_ice_update", v |-> ice.engine, w |-> ice'.engine,
       active |-> anti_ice_active],
      [name |-> "wing_ice_update", v |-> ice.wing, w |-> ice'.wing,
       active |-> wing_ice_active],
      [name |-> "pitot_update", v |-> ice.pitot, w |-> ice'.pitot,
       active |-> pitot_heat] }

C37_NoIceUnderAutomation ==
    auto_manage_systems => ice.engine = 0 /\ ice.wing = 0 /\ ice.pitot = 0

\* C37 amended: if system automation stays enabled for the whole run, engine
\* ice and wing ice stay at 0 in every tick, because the automation switches
\* their protection on in the tick icing conditions appear, before they are
\* updated; the pitot tube is updated before the automation sets its heat,
\* so its clog grows by the clog rate times dt, up to 1, in every tick
\* that has icing conditions and finds the heat off, and clears by the
\* clear rate times dt, down to 0, in every other tick.
C37_OnlyPitotClogsUnderAutomation ==
    [][auto_manage_systems =>
          /\ ice'.engine = 0 /\ ice'.wing = 0
          /\ op' = "autopilot_ice" =>
                /\ ice'.pitot =
                       IF ice_ret'.icing /\ ~pitot_heat
                       THEN Min(IceFull, ice.pitot + ClogRate * fdm_dt)
                       ELSE Max(0, ice.pitot - ClearRate * fdm_dt)
                /\ pitot_heat' = ice_ret'.icing
                /\ anti_ice_active' = ice_ret'.icing
                /\ wing_ice_active' = ice_ret'.icing]_vars

\* a tick with icing conditions has clogged the pitot tube and switched
\* every protection on, and no ice is on the engines or the wings
C37_Witness ==
    /\ op = "autopilot_ice"
    /\ auto_manage_systems /\ ice_ret.icing
    /\ ice.pitot > 0
    /\ pitot_heat /\ anti_ice_active /\ wing_ice_active
    /\ ice.engine = 0 /\ ice.wing = 0

ManualBrake(on_ground, speed_kt) ==
    IF on_ground /\ speed_kt > 30
    THEN Min(((speed_kt - 30) * 100) \div 40, 100)
    ELSE 0

\* C36: with system automation enabled, after every Autopilot.update in
\* which the autobrake ends active the brake command is the constant of the
\* selected level (low 0.3, med 0.6, high 1.0), whatever the ground speed
\* would give; the speed-derived command (min((speed - 30) / 40, 1) on the
\* ground above 30 kt, else 0) is what the update leaves only when the
\* autobrake ends not active.
C36_AutobrakeSetsCommand ==
    [][(auto_manage_systems /\ op' = "autopilot_systems")
          => /\ ab_active' => /\ ab_level' \in CrewLevels
                              /\ brake_command' = LEVELS[ab_level']
             /\ ~ab_active' => brake_command'
                                  = ManualBrake(ab_args'.on_ground,
                                                ab_args'.speed_kt)]_vars

\* the autobrake ends an update active at level low on the ground at a speed
\* whose manual command (0.5) is not the level's constant
C36_Witness ==
    /\ op = "autopilot_systems"
    /\ auto_manage_systems
    /\ ab_active /\ ab_level = "low"
    /\ brake_command = LEVELS["low"]
    /\ ab_args.on_ground
    /\ ManualBrake(ab_args.on_ground, ab_args.speed_kt) = 50

\* the imbalance abs(left - right) of the tanks
Imbalance == Abs(tank_left - tank_right)

\* C38 (as stated): the crew's crossfeed override does not outlast one
\* FuelSystem.update when it contradicts the automatic logic: after
\* disable_crossfeed() with the imbalance above the threshold the next
\* update leaves crossfeed on, and after enable_crossfeed() with the
\* imbalance below 20% of the threshold the next update leaves it off.
C38_OverrideUndone ==
    [][(op = "set_crossfeed" /\ op' = "fuel_update")
          => /\ (~crossfeed_on /\ Imbalance > BalanceThresholdLbs)
                    => crossfeed_on'
             /\ (crossfeed_on /\ 5 * Imbalance < BalanceThresholdLbs)
                    => ~crossfeed_on']_vars

\* C38 (amended): after disable_crossfeed() with the imbalance above the
\* threshold the next update transfers fuel from the fuller tank to the
\* emptier one, and crossfeed is on after it unless that transfer left the
\* imbalance below 20% of the threshold; after enable_crossfeed() with the
\* imbalance below 20% of the threshold the next update leaves it off.
C38_OverrideUndoneUnlessBalanced ==
    [][(op = "set_crossfeed" /\ op' = "fuel_update")
          => /\ (~crossfeed_on /\ Imbalance > BalanceThresholdLbs)
                    => /\ tank_left' + tank_right' = tank_left + tank_right
                       /\ IF tank_left > tank_right
                          THEN tank_left' < tank_left
                          ELSE tank_right' < tank_right
                       /\ crossfeed_on'
                             = ~(5 * Imbalance' < BalanceThresholdLbs)
             /\ (crossfeed_on /\ 5 * Imbalance < BalanceThresholdLbs)
                    => ~crossfeed_on']_vars

\* an update that followed disable_crossfeed() engaged crossfeed and left it
\* on
C38_Witness ==
    /\ op = "fuel_update"
    /\ fuel_ret.overridden /\ ~fuel_ret.entry_crossfeed
    /\ crossfeed_on
    /\ Imbalance > 0

\* an update that followed enable_crossfeed() with the tanks within 20% of
\* the threshold turned crossfeed off
C38_WitnessOff ==
    /\ op = "fuel_update"
    /\ fuel_ret.overridden /\ fuel_ret.entry_crossfeed
    /\ ~crossfeed_on
    /\ Imbalance > 0

\* C40: once crossfeed has engaged and no fuel is burned, repeated
\* FuelSystem.update calls eventually turn crossfeed off, for every
\* timestep: each transfer strictly reduces abs(left - right), and so never
\* makes the previously emptier tank the fuller one by the same or a larger
\* margin.
C40_CrossfeedTerminates ==
    /\ crossfeed_on ~> ~crossfeed_on
    /\ [][(op' = "fuel_update" /\ Imbalance > 0
             /\ (crossfeed_on \/ Imbalance > BalanceThresholdLbs))
             => Imbalance' < Imbalance]_vars

\* position p has moved to pnew toward t and not past it
TowardSchedule(p, pnew, t) ==
    IF t >= p THEN p <= pnew /\ pnew <= t ELSE t <= pnew /\ pnew <= p

\* C39: with system automation enabled, a gear, flap or speedbrake target
\* set through the FlightControlPanel is overwritten by the automatic
\* schedule in the next Autopilot.update before SystemManager moves any
\* surface: after the update the three targets are the schedule's, and each
\* surface has stayed or moved toward the schedule's target, so a manual
\* command that differs from the schedule never moves the surface.
C39_ScheduleOverwritesCrew ==
    [][(auto_manage_systems /\ op' = "autopilot_systems")
          => \E sc \in ScheduleScenes :
                LET t == manage_targets_f(sc.alt, sc.speed)
                IN  /\ sc.speed = sys'.speed_seen
                    /\ sys'.target_gear = t.gear
                    /\ sys'.target_flap = t.flap
                    /\ sys'.target_speedbrake = t.speedbrake
                    /\ TowardSchedule(sys.gear, sys'.gear, t.gear)
                    /\ TowardSchedule(sys.flap, sys'.flap, t.flap)
                    /\ TowardSchedule(sys.speedbrake, sys'.speedbrake,
                                      t.speedbrake)]_vars

\* an update with automation enabled found the crew's targets gear up,
\* flap 0 and speedbrake out, with the surfaces where the schedule had put
\* them, and left the schedule's targets and the surfaces unmoved
C39_Witness ==
    /\ op = "autopilot_systems"
    /\ auto_manage_systems
    /\ sys.targets_seen = <<0, 0, Quant>>
    /\ sys.target_gear = Quant /\ sys.gear = Quant
    /\ sys.target_flap > 0 /\ sys.flap = sys.target_flap
    /\ sys.target_speedbrake = 0 /\ sys.speedbrake = 0
=============================================================================
